---- MODULE Spec2Model ----
(***************************************************************************)
(* A model of the IMU extractor of AV-Gaussian-Workflow                    *)
(* (src/imu_extractor.py): the plain-text and JSON extraction strategies   *)
(* of IMUExtractor.extract_imu_metadata, the completeness diagnostic, the  *)
(* heading integrator and the direction summary.                           *)
(*                                                                         *)
(* Python floats are modelled in fixed point.  A timestamp t stands for    *)
(* t / TsScale seconds, a rate g for g * pi / PiRad rad/s, an angle in     *)
(* radians r for r * pi / (PiRad * TsScale) rad and an angle in degrees d  *)
(* for d / DegScale degrees.  Additions and subtractions are rounded to    *)
(* MantBits significant bits (round half to even), which is what an IEEE   *)
(* double does with 53 bits; products and quotients are rounded to the     *)
(* unit of their result.                                                   *)
(***************************************************************************)
EXTENDS Integers, Sequences, FiniteSets, TLC

VARIABLES
    suffix,            \* self.video_path.suffix
    imu_data,          \* self.imu_data, the list of IMUReading
    pc,                \* position inside extract_imu_metadata
    lines,             \* the lines of result.stdout the parser has consumed
    current_timecode,  \* _parse_raw_insta360_output: pending time code
    current_accel,     \* _parse_raw_insta360_output: pending accelerometer triple
    current_gyro,      \* _parse_raw_insta360_output: pending gyroscope triple
    calls,             \* the external processes this call has run, in order,
                       \* each with its exit code and the kind of its output
    ret,               \* what extract_imu_metadata returned
    raised,            \* the exception extract_imu_metadata let escape
    probe,             \* what the duration probe answered in this call
    warned,            \* whether the low-coverage warning was printed
    headings,          \* the list calculate_heading_changes returned last
    summary,           \* the dict get_direction_summary returned last
    deltas,            \* the values of diff in get_direction_summary's loop
    fault,             \* the exception the last consumer operation raised
    last_op,           \* the consumer operation that ran last
    files,             \* the content of the file at each output path
    output_path,       \* the output_path of the last save call
    scan_data,         \* the JSON value handed to _extract_imu_readings or
                       \* returned by json.loads
    argv,              \* sys.argv of the running script
    directory,         \* the files next to the input video
    video_path,        \* the path the script constructed its IMUExtractor on
    run,               \* position inside the script's main
    steps,             \* what the script has called, in order
    sparse_dir,        \* colmap_sfm_fisheye: the sparse directory
    largest_model      \* colmap_sfm_fisheye: what find_largest_model returned

vars == <<suffix, imu_data, pc, lines, current_timecode, current_accel,
          current_gyro, calls, ret, raised, probe, warned, headings, summary,
          deltas, fault, last_op, files, output_path, scan_data, argv, directory,
          video_path, run, steps, sparse_dir, largest_model>>

extraction_vars == <<suffix, pc, lines, current_timecode, current_accel,
                     current_gyro, calls, ret, raised, probe, warned>>

consumer_vars == <<headings, summary, deltas, fault, last_op>>

file_vars == <<files, output_path>>

script_vars == <<scan_data, argv, directory, video_path, run, steps,
                 sparse_dir, largest_model>>

----------------------------------------------------------------------------
(* Bounds of the model *)

MaxReadings == 3
MaxLines == 4
MaxTriples == 2
MantBits == 13
MaxHeld == 1

----------------------------------------------------------------------------
(* Fixed-point floats *)

TsScale == 2000
PiRad == 1440
DegScale == 128

Abs(x) == IF x < 0 THEN -x ELSE x

RECURSIVE GCD(_, _)
GCD(a, b) == IF b = 0 THEN a ELSE GCD(b, a % b)

RECURSIVE Pow2(_)
Pow2(n) == IF n = 0 THEN 1 ELSE 2 * Pow2(n - 1)

\* n / d rounded to the nearest integer, ties to even (d > 0).
RoundDiv(n, d) ==
    LET q == n \div d
        r == n % d
    IN  IF 2 * r < d THEN q
        ELSE IF 2 * r > d THEN q + 1
        ELSE IF q % 2 = 0 THEN q ELSE q + 1

\* The spacing of the representable values around a (a >= 0).
MantLimit == Pow2(MantBits)

RECURSIVE Ulp(_)
Ulp(a) == IF a < MantLimit THEN 1 ELSE 2 * Ulp(a \div 2)

\* x rounded to a representable value.
Fl(x) == LET u == Ulp(Abs(x)) IN u * RoundDiv(x, u)

FAdd(a, b) == Fl(a + b)
FSub(a, b) == Fl(a - b)

\* C fmod: the remainder has the sign of x and is exact.
Fmod(x, w) == IF x >= 0 THEN x % w ELSE -((-x) % w)

\* Python's float x % w for w > 0 (float_rem): fmod, and when the remainder
\* is non-zero and negative, remainder + w as a float addition.
PyFloatMod(x, w) ==
    LET m == Fmod(x, w)
    IN  IF m # 0 /\ m < 0 THEN FAdd(m, w) ELSE m

Deg(d) == d * DegScale
Seconds(s) == s * TsScale

----------------------------------------------------------------------------
(* IMUReading *)

IMUReading(ts, accel, gyro) ==
    [timestamp |-> ts,
     accel_x |-> accel[1], accel_y |-> accel[2], accel_z |-> accel[3],
     gyro_x |-> gyro[1], gyro_y |-> gyro[2], gyro_z |-> gyro[3]]

----------------------------------------------------------------------------
(* calculate_heading_changes *)

\* math.degrees of an angle in radians: x * (180 / pi).
RadToDegNum == (180 * DegScale) \div GCD(180 * DegScale, PiRad * TsScale)
RadToDegDen == (PiRad * TsScale) \div GCD(180 * DegScale, PiRad * TsScale)

Degrees(r) == RoundDiv(r * RadToDegNum, RadToDegDen)

\* The heading the previous call ended with, kept on the extractor.
InitialHeadingCarried == IF headings = <<>> THEN 0 ELSE headings[Len(headings)][2]

\* current_heading = 0.0
InitialHeading == 0

\* A fallback of one second.
FallbackDtOneSecond == TsScale

\* dt = 1.0 / 1000.0
FallbackDt == TsScale \div 1000

TimeDeltaRaw(data, i) == FSub(data[i].timestamp, data[i - 1].timestamp)

TimeDelta(data, i) ==
    LET dt == TimeDeltaRaw(data, i)
    IN  IF dt <= 0 THEN FallbackDt ELSE dt

YawRate(data, i) == data[i].gyro_z

HeadingChangeDegrees(data, i) == Degrees(YawRate(data, i) * TimeDelta(data, i))

NormalizeHeading(h) ==
    LET m == PyFloatMod(h, Deg(360))
    IN  IF m < 0 THEN FAdd(m, Deg(360)) ELSE m

\* current_heading after the loop body has run for reading i (i > 1).
IntegrateHeading(current_heading, data, i) ==
    NormalizeHeading(FAdd(current_heading, HeadingChangeDegrees(data, i)))

\* headings after the loop has handled the first n readings (n >= 1).
RECURSIVE HeadingsUpTo(_, _)
HeadingsUpTo(data, n) ==
    IF n = 1 THEN << <<data[1].timestamp, InitialHeading>> >>
    ELSE LET done == HeadingsUpTo(data, n - 1)
         IN  Append(done, <<data[n].timestamp,
                            IntegrateHeading(done[n - 1][2], data, n)>>)

calculate_heading_changes(data) ==
    IF Len(data) = 0 THEN <<>> ELSE HeadingsUpTo(data, Len(data))

----------------------------------------------------------------------------
(* get_direction_summary *)

EmptyDict == [k \in {} |-> 0]

\* heading - prev_heading with no wrap correction.
ShortestDeltaUnwrapped(prev_heading, heading) == FSub(heading, prev_heading)

\* heading - prev_heading brought to the shortest angular distance.
ShortestDelta(prev_heading, heading) ==
    LET diff == FSub(heading, prev_heading)
    IN  IF diff > Deg(180) THEN FSub(diff, Deg(360))
        ELSE IF diff < -Deg(180) THEN FAdd(diff, Deg(360))
        ELSE diff

\* diff for every element of headings[1:], in loop order.
HeadingDeltas(heads) ==
    [i \in 1..(Len(heads) - 1) |-> ShortestDelta(heads[i][2], heads[i + 1][2])]

\* total_rotation after the first n iterations of the loop.
RECURSIVE TotalRotation(_, _)
TotalRotation(ds, n) ==
    IF n = 0 THEN 0 ELSE FAdd(TotalRotation(ds, n - 1), Abs(ds[n]))

IsSignificant(diff) == Abs(diff) > Deg(10)

DirectionChanges(ds) == Cardinality({i \in DOMAIN ds : IsSignificant(ds[i])})

\* a / d for d in seconds; dividing by zero raises.
DivBySeconds(a, d) ==
    IF d = 0 THEN [value |-> 0, fault |-> "ZeroDivisionError"]
    ELSE [value |-> RoundDiv(a * TsScale, d), fault |-> "None"]

\* The division without its guards.
AverageRotationRateUnguarded(heads, total_rotation) ==
    DivBySeconds(total_rotation, FSub(heads[Len(heads)][1], heads[1][1]))

\* The division by the last timestamp instead of the span.
AverageRotationRateOverLastTimestamp(heads, total_rotation) ==
    IF Len(heads) > 1
    THEN LET duration == heads[Len(heads)][1]
         IN  IF duration > 0 THEN DivBySeconds(total_rotation, duration)
             ELSE [value |-> 0, fault |-> "None"]
    ELSE [value |-> 0, fault |-> "None"]

\* total_rotation / (last timestamp - first timestamp), or 0.
AverageRotationRate(heads, total_rotation) ==
    IF Len(heads) > 1
    THEN LET duration == FSub(heads[Len(heads)][1], heads[1][1])
         IN  IF duration > 0 THEN DivBySeconds(total_rotation, duration)
             ELSE [value |-> 0, fault |-> "None"]
    ELSE [value |-> 0, fault |-> "None"]

\* The dict built by the return statement.
DirectionSummary(heads, ds, total_rotation, avg_rotation_rate) ==
    [total_rotation_degrees |-> total_rotation,
     direction_changes_count |-> DirectionChanges(ds),
     average_rotation_rate_deg_per_sec |-> avg_rotation_rate,
     initial_heading_degrees |-> heads[1][2],
     final_heading_degrees |-> heads[Len(heads)][2],
     heading_samples |-> Len(heads)]

----------------------------------------------------------------------------
(* Text of the metadata tool's output *)

\* A whitespace-separated token: a number, or text float() rejects.
Num(v) == [num |-> TRUE, val |-> v]
NotANumber == [num |-> FALSE, val |-> 0]

\* float(s) for the text s made of the tokens toks.
FloatOfText(toks) ==
    IF Len(toks) = 1 /\ toks[1].num
    THEN [exc |-> "None", value |-> toks[1].val]
    ELSE [exc |-> "ValueError", value |-> 0]

\* A line of the plain-text output after strip(): the tag it starts with
\* ("" for a blank line), whether it holds a ':', and the tokens of the
\* text between the first ':' and the next.
Line(tag, colon, toks) == [tag |-> tag, colon |-> colon, tokens |-> toks]

TimeCodeLine(tc) == Line("Time Code", TRUE, <<Num(tc)>>)
TripleLine(tag, v) == Line(tag, TRUE, <<Num(v[1]), Num(v[2]), Num(v[3])>>)

----------------------------------------------------------------------------
(* _parse_raw_insta360_output *)

None == <<>>

\* The time code taken for seconds as it is written.
SecondsOfTimeCodeUndivided(tc) == tc * TsScale

\* float(parts[1].strip()) / 1000.0
SecondsOfTimeCode(tc) == RoundDiv(tc * TsScale, 1000)

\* [float(x) for x in parts]
FloatsOf(toks) ==
    IF \A i \in DOMAIN toks : toks[i].num
    THEN [exc |-> "None", value |-> [i \in DOMAIN toks |-> toks[i].val]]
    ELSE [exc |-> "ValueError", value |-> <<>>]

\* The if / elif chain of the loop body on one line: the pending fields
\* after it, and whether the body left through a "continue".
ParseFields(line, timecode, accel, gyro) ==
    LET same == [timecode |-> timecode, accel |-> accel, gyro |-> gyro,
                 continue |-> FALSE]
        skip == [same EXCEPT !.continue = TRUE]
    IN  IF line.tag = "" THEN skip
        ELSE IF line.tag = "Time Code"
        THEN IF line.colon
             THEN LET f == FloatOfText(line.tokens)
                  IN  IF f.exc = "None"
                      THEN [same EXCEPT !.timecode = <<SecondsOfTimeCode(f.value)>>]
                      ELSE skip
             ELSE same
        ELSE IF line.tag = "Accelerometer"
        THEN IF line.colon /\ Len(line.tokens) = 3
             THEN LET f == FloatsOf(line.tokens)
                  IN  IF f.exc = "None" THEN [same EXCEPT !.accel = f.value]
                      ELSE skip
             ELSE same
        ELSE IF line.tag = "Angular Velocity"
        THEN IF line.colon /\ Len(line.tokens) = 3
             THEN LET f == FloatsOf(line.tokens)
                  IN  IF f.exc = "None" THEN [same EXCEPT !.gyro = f.value]
                      ELSE skip
             ELSE same
        ELSE same

\* "if current_timecode is not None and current_accel and current_gyro"
AllThree(f) == f.timecode # None /\ Len(f.accel) > 0 /\ Len(f.gyro) > 0

\* The iteration without the reset of the three slots.
ParseLineStepKeepingSlots(line) ==
    \E f \in {ParseFields(line, current_timecode, current_accel, current_gyro)} :
        /\ imu_data' = IF ~f.continue /\ AllThree(f)
                       THEN Append(imu_data, IMUReading(f.timecode[1], f.accel, f.gyro))
                       ELSE imu_data
        /\ current_timecode' = f.timecode
        /\ current_accel' = f.accel
        /\ current_gyro' = f.gyro

\* One iteration of "for line in lines".
ParseLineStep(line) ==
    \E f \in {ParseFields(line, current_timecode, current_accel, current_gyro)} :
        IF ~f.continue /\ AllThree(f)
        THEN /\ imu_data' = Append(imu_data, IMUReading(f.timecode[1], f.accel, f.gyro))
             /\ current_timecode' = None
             /\ current_accel' = None
             /\ current_gyro' = None
        ELSE /\ imu_data' = imu_data
             /\ current_timecode' = f.timecode
             /\ current_accel' = f.accel
             /\ current_gyro' = f.gyro

----------------------------------------------------------------------------
(* JSON values of the metadata tool's -j output *)

JNum(v) == [type |-> "num", val |-> v, tokens |-> <<>>, members |-> <<>>, elems |-> <<>>]
JStr(toks) == [type |-> "str", val |-> 0, tokens |-> toks, members |-> <<>>, elems |-> <<>>]
JDict(members) == [type |-> "dict", val |-> 0, tokens |-> <<>>, members |-> members, elems |-> <<>>]
JList(elems) == [type |-> "list", val |-> 0, tokens |-> <<>>, members |-> <<>>, elems |-> elems]
Member(key, value) == [key |-> key, value |-> value]

\* key in d
HasKey(d, key) == \E i \in DOMAIN d.members : d.members[i].key = key

\* d[key]
ValueOf(d, key) ==
    d.members[CHOOSE i \in DOMAIN d.members : d.members[i].key = key].value

\* float(v): a number or a numeric string converts, other text raises
\* ValueError, a list or dict raises TypeError.
FloatOfJson(v) ==
    IF v.type = "num" THEN [exc |-> "None", value |-> v.val]
    ELSE IF v.type = "str" THEN FloatOfText(v.tokens)
    ELSE [exc |-> "TypeError", value |-> 0]

\* bool(v) for the value json.loads returned.
Truthy(v) ==
    CASE v.type = "num" -> v.val # 0
      [] v.type = "str" -> Len(v.tokens) > 0
      [] v.type = "dict" -> Len(v.members) > 0
      [] v.type = "list" -> Len(v.elems) > 0

----------------------------------------------------------------------------
(* _parse_single_imu_reading, _extract_imu_readings *)

\* _find_value: the value of the first alias present, as a sequence of
\* length 0 (None) or 1.
RECURSIVE FindValueFrom(_, _, _)
FindValueFrom(data, keys, k) ==
    IF k > Len(keys) THEN None
    ELSE IF HasKey(data, keys[k]) THEN <<ValueOf(data, keys[k])>>
    ELSE FindValueFrom(data, keys, k + 1)

_find_value(data, keys) == FindValueFrom(data, keys, 1)

AccelAliases(axis) ==
    CASE axis = "x" -> <<"AccelX", "accel_x", "ax", "AccelerationX">>
      [] axis = "y" -> <<"AccelY", "accel_y", "ay", "AccelerationY">>
      [] axis = "z" -> <<"AccelZ", "accel_z", "az", "AccelerationZ">>

GyroAliases(axis) ==
    CASE axis = "x" -> <<"GyroX", "gyro_x", "gx", "AngularVelocityX">>
      [] axis = "y" -> <<"GyroY", "gyro_y", "gy", "AngularVelocityY">>
      [] axis = "z" -> <<"GyroZ", "gyro_z", "gz", "AngularVelocityZ">>

TimestampAliases == <<"timestamp", "time", "Timestamp", "Time">>

GyroOrOne(found) ==
    IF found = None THEN [exc |-> "None", value |-> 1] ELSE FloatOfJson(found[1])

\* float(gyro) if gyro is not None else 0.0
GyroOrZero(found) ==
    IF found = None THEN [exc |-> "None", value |-> 0] ELSE FloatOfJson(found[1])

\* The reading returned, as a sequence of length 0 (None) or 1.
_parse_single_imu_reading(data, timestamp) ==
    LET ax == _find_value(data, AccelAliases("x"))
        ay == _find_value(data, AccelAliases("y"))
        az == _find_value(data, AccelAliases("z"))
        gx == GyroOrZero(_find_value(data, GyroAliases("x")))
        gy == GyroOrZero(_find_value(data, GyroAliases("y")))
        gz == GyroOrZero(_find_value(data, GyroAliases("z")))
        ts == _find_value(data, TimestampAliases)
        tsf == IF ts = None THEN [exc |-> "None", value |-> timestamp]
               ELSE LET f == FloatOfJson(ts[1])
                    IN  [exc |-> f.exc, value |-> f.value * TsScale]
    IN  IF tsf.exc # "None" THEN None
        ELSE IF ax = None \/ ay = None \/ az = None THEN None
        ELSE LET fx == FloatOfJson(ax[1])
                 fy == FloatOfJson(ay[1])
                 fz == FloatOfJson(az[1])
             IN  IF \E f \in {fx, fy, fz, gx, gy, gz} : f.exc # "None" THEN None
                 ELSE <<IMUReading(tsf.value,
                                   <<fx.value, fy.value, fz.value>>,
                                   <<gx.value, gy.value, gz.value>>)>>

AssumedTimestampPerSecond(i) == i * TsScale

\* i * 0.01, the timestamp assumed for element i (from 0) of a list.
AssumedTimestamp(i) == RoundDiv(i * TsScale, 100)

\* The readings appended for the elements of a list, from element k on.
RECURSIVE ReadingsOfList(_, _)
ReadingsOfList(elems, k) ==
    IF k > Len(elems) THEN <<>>
    ELSE (IF elems[k].type = "dict"
          THEN _parse_single_imu_reading(elems[k], AssumedTimestamp(k - 1))
          ELSE <<>>) \o ReadingsOfList(elems, k + 1)

\* The readings _extract_imu_readings appends.
_extract_imu_readings(data) ==
    IF data.type = "list" THEN ReadingsOfList(data.elems, 1)
    ELSE IF data.type = "dict" THEN _parse_single_imu_reading(data, 0)
    ELSE <<>>

----------------------------------------------------------------------------
(* _extract_insta360_imu_reading *)

\* s.split() of a JSON value: only a string has the method.
SplitOf(v) ==
    IF v.type = "str" THEN [exc |-> "None", value |-> v.tokens]
    ELSE [exc |-> "AttributeError", value |-> <<>>]

\* data.get(key, default)
GetOr(data, key, default) == IF HasKey(data, key) THEN ValueOf(data, key) ELSE default

\* The three floats of an "x y z" string, inside the try block.
TripleOf(v) ==
    LET parts == SplitOf(v)
    IN  IF parts.exc # "None" THEN [exc |-> parts.exc, ok |-> FALSE, value |-> <<>>]
        ELSE IF Len(parts.value) # 3 THEN [exc |-> "None", ok |-> FALSE, value |-> <<>>]
        ELSE LET f == FloatsOf(parts.value)
             IN  [exc |-> f.exc, ok |-> f.exc = "None", value |-> f.value]

\* The readings appended (none or one) and the exception that escapes the
\* except (ValueError, TypeError) clause.
_extract_insta360_imu_reading(data) ==
    LET caught == {"ValueError", "TypeError"}
        quiet == [readings |-> <<>>, exc |-> "None"]
        tc == FloatOfJson(GetOr(data, "TimeCode", JNum(0)))
    IN  IF tc.exc # "None"
        THEN (IF tc.exc \in caught THEN quiet ELSE [quiet EXCEPT !.exc = tc.exc])
        ELSE LET accel == TripleOf(GetOr(data, "Accelerometer", JStr(<<>>)))
             IN  IF accel.exc # "None"
                 THEN (IF accel.exc \in caught THEN quiet
                       ELSE [quiet EXCEPT !.exc = accel.exc])
                 ELSE IF ~accel.ok THEN quiet
                 ELSE LET gyro == TripleOf(GetOr(data, "AngularVelocity", JStr(<<>>)))
                      IN  IF gyro.exc # "None"
                          THEN (IF gyro.exc \in caught THEN quiet
                                ELSE [quiet EXCEPT !.exc = gyro.exc])
                          ELSE IF ~gyro.ok THEN quiet
                          ELSE [readings |->
                                  <<IMUReading(SecondsOfTimeCode(tc.value),
                                               accel.value, gyro.value)>>,
                                exc |-> "None"]

----------------------------------------------------------------------------
(* _parse_imu_from_metadata *)

imu_fields ==
    <<"AccelerometerData", "GyroscopeData", "SensorData",
      "CameraMotionMetadata", "MotionData", "IMUData">>

\* key.startswith('Doc'), on the keys of the model.
StartsWithDoc(key) == key \in {"Doc1", "Doc2", "Doc3"}

\* 'accel' in key.lower() or 'gyro' in key.lower() or 'imu' in key.lower(),
\* on the keys of the model.
NamesImu(key) ==
    key \in {"AccelerometerData", "GyroscopeData", "IMUData", "accel_log"}

\* First loop: the readings of the first known field present.
RECURSIVE KnownFieldReadings(_, _)
KnownFieldReadings(metadata, k) ==
    IF k > Len(imu_fields) THEN <<>>
    ELSE IF HasKey(metadata, imu_fields[k])
    THEN _extract_imu_readings(ValueOf(metadata, imu_fields[k]))
    ELSE KnownFieldReadings(metadata, k + 1)

\* Second loop from member k on: the readings of the Doc* entries, until
\* one raises.
RECURSIVE DocReadings(_, _)
DocReadings(metadata, k) ==
    IF k > Len(metadata.members) THEN [readings |-> <<>>, exc |-> "None"]
    ELSE LET m == metadata.members[k]
         IN  IF /\ StartsWithDoc(m.key)
                /\ m.value.type = "dict"
                /\ HasKey(m.value, "Accelerometer")
                /\ HasKey(m.value, "AngularVelocity")
             THEN LET one == _extract_insta360_imu_reading(m.value)
                  IN  IF one.exc # "None" THEN one
                      ELSE LET rest == DocReadings(metadata, k + 1)
                           IN  [readings |-> one.readings \o rest.readings,
                                exc |-> rest.exc]
             ELSE DocReadings(metadata, k + 1)

\* Third loop from member k on: the readings of the keys that name IMU data.
RECURSIVE EmbeddedReadings(_, _)
EmbeddedReadings(metadata, k) ==
    IF k > Len(metadata.members) THEN <<>>
    ELSE LET m == metadata.members[k]
         IN  (IF NamesImu(m.key) /\ m.value.type \in {"list", "dict"}
              THEN _extract_imu_readings(m.value)
              ELSE <<>>) \o EmbeddedReadings(metadata, k + 1)

\* The readings appended to self.imu_data, in order, and the exception
\* raised, if any.  "field in metadata" raises TypeError on a number;
\* a string or a list has no items().
_parse_imu_from_metadata(metadata) ==
    IF metadata.type = "num" THEN [readings |-> <<>>, exc |-> "TypeError"]
    ELSE IF metadata.type # "dict" THEN [readings |-> <<>>, exc |-> "AttributeError"]
    ELSE LET known == KnownFieldReadings(metadata, 1)
             docs == DocReadings(metadata, 1)
         IN  IF docs.exc # "None"
             THEN [readings |-> known \o docs.readings, exc |-> docs.exc]
             ELSE [readings |-> known \o docs.readings \o EmbeddedReadings(metadata, 1),
                   exc |-> "None"]

----------------------------------------------------------------------------
(* save_imu_data_csv, save_heading_data_csv *)

OutputPaths == {"imu_data.csv", "imu_readings.csv", "heading_data.csv"}

\* The content of a path no file is at.
NoFile == <<"no file">>

\* The decimal digits of n >= 0, the first one first.
RECURSIVE DigitsOf(_)
DigitsOf(n) ==
    LET digit == <<"0", "1", "2", "3", "4", "5", "6", "7", "8", "9">>[(n % 10) + 1]
    IN  IF n < 10 THEN <<digit>> ELSE Append(DigitsOf(n \div 10), digit)

\* The text of a float without its sign.
FloatReprUnsigned(x) == DigitsOf(Abs(x)) \o <<".", "0">>

\* repr(x), the text csv.writer writes for the float x.
FloatRepr(x) == (IF x < 0 THEN <<"-">> ELSE <<>>) \o DigitsOf(Abs(x)) \o <<".", "0">>

ImuHeader == <<"timestamp", "accel_x", "accel_y", "accel_z", "gyro_x", "gyro_y", "gyro_z">>

\* The row written for one reading.
ImuRow(reading) ==
    <<FloatRepr(reading.timestamp),
      FloatRepr(reading.accel_x), FloatRepr(reading.accel_y), FloatRepr(reading.accel_z),
      FloatRepr(reading.gyro_x), FloatRepr(reading.gyro_y), FloatRepr(reading.gyro_z)>>

\* save_imu_data_csv creating or truncating the file whatever imu_data holds.
WriteImuDataCsvAlways(fs, path, readings) ==
    [fs EXCEPT ![path] = <<ImuHeader>> \o [k \in DOMAIN readings |-> ImuRow(readings[k])]]

\* The file system after save_imu_data_csv(path): the rows of the file,
\* each a tuple of cells.
WriteImuDataCsv(fs, path, readings) ==
    IF Len(readings) = 0 THEN fs
    ELSE [fs EXCEPT ![path] = <<ImuHeader>> \o [k \in DOMAIN readings |-> ImuRow(readings[k])]]

HeadingHeader == <<"timestamp", "heading_degrees">>

\* The file system after save_heading_data_csv(path).
WriteHeadingDataCsv(fs, path, heads) ==
    IF Len(heads) = 0 THEN fs
    ELSE [fs EXCEPT ![path] = <<HeadingHeader>>
              \o [k \in DOMAIN heads |-> <<FloatRepr(heads[k][1]), FloatRepr(heads[k][2])>>]]

----------------------------------------------------------------------------
(* The inputs of the model *)

SuffixSamples == {".insv", ".INSV", ".mp4"}

\* A path or a command-line word: its text up to the suffix, and the suffix.
Path(stem, ext) == [stem |-> stem, suffix |-> ext]

\* Time codes in milliseconds.
TimeCodeSamples == {0, 1000}

AccelSamples == {<<1, 2, 3>>, <<4, 5, 6>>}
GyroSamples == {<<7, 8, 9>>, <<10, 11, 12>>}

WellFormedLines ==
    {TimeCodeLine(tc) : tc \in TimeCodeSamples}
    \cup {TripleLine("Accelerometer", a) : a \in AccelSamples}
    \cup {TripleLine("Angular Velocity", g) : g \in GyroSamples}

MalformedLines ==
    {Line("Time Code", TRUE, <<NotANumber>>),
     Line("Accelerometer", TRUE, <<Num(1), NotANumber, Num(3)>>),
     Line("Accelerometer", TRUE, <<Num(1), Num(2)>>),
     Line("Angular Velocity", TRUE, <<Num(7), NotANumber, Num(9)>>)}

OtherLines == {Line("File Name", TRUE, <<NotANumber>>), Line("", FALSE, <<>>)}

LineSamples == WellFormedLines \cup MalformedLines \cup OtherLines

RepeatedLines ==
    {TimeCodeLine(1000), TripleLine("Accelerometer", <<1, 2, 3>>),
     TripleLine("Angular Velocity", <<7, 8, 9>>)}

\* A subprocess.run that has returned: the command, the exit code and the
\* kind of text on its standard output.
Call(cmd, returncode, stdout) == [cmd |-> cmd, returncode |-> returncode, stdout |-> stdout]

ExiftoolRaw == "exiftool -ee -g1"
ExiftoolJson == "exiftool -ee3 -g3 -j"
Ffprobe == "ffprobe"

NoProbe == [returncode |-> -1, numeric |-> FALSE, duration |-> 0]

\* What the duration probe can end with: a failure, an output float()
\* rejects, or a duration.
ProbeSamples ==
    {[returncode |-> 1, numeric |-> FALSE, duration |-> 0],
     [returncode |-> 0, numeric |-> FALSE, duration |-> 0]}
    \cup {[returncode |-> 0, numeric |-> TRUE, duration |-> d] :
            d \in {0, Seconds(1), Seconds(2), Seconds(60)}}

DocEntry(tc, accel, gyro) ==
    JDict(<<Member("TimeCode", tc), Member("Accelerometer", accel),
            Member("AngularVelocity", gyro)>>)

TextTriple(v) == JStr(<<Num(v[1]), Num(v[2]), Num(v[3])>>)

GoodDoc(tc) == DocEntry(JNum(tc), TextTriple(<<1, 2, 3>>), TextTriple(<<7, 8, 9>>))

ReadingObject(a) ==
    JDict(<<Member("AccelX", JNum(a[1])), Member("AccelY", JNum(a[2])),
            Member("AccelZ", JNum(a[3])), Member("GyroZ", JNum(9))>>)

SourceFile == Member("SourceFile", JStr(<<NotANumber>>))

\* Documents json.loads can return for the tool's output.
JsonSamples ==
    {JList(<<>>),
     JNum(5),
     JList(<<JDict(<<SourceFile>>)>>),
     JList(<<JDict(<<SourceFile, Member("Doc1", GoodDoc(0)),
                     Member("Doc2", GoodDoc(1000))>>)>>),
     JList(<<JDict(<<SourceFile, Member("Doc1", GoodDoc(0)),
                     Member("Doc2", DocEntry(JNum(1000), JNum(1), TextTriple(<<7, 8, 9>>)))>>)>>),
     JList(<<JDict(<<SourceFile,
                     Member("IMUData", JList(<<ReadingObject(<<1, 2, 3>>),
                                               ReadingObject(<<4, 5, 6>>)>>))>>)>>),
     JDict(<<Member("accel_log", ReadingObject(<<1, 2, 3>>))>>)}

\* What the JSON run of the tool can end with.
ToolJsonOutcomes ==
    {[returncode |-> 1, valid |-> FALSE, json |-> JNum(0)],
     [returncode |-> 0, valid |-> FALSE, json |-> JNum(0)]}
    \cup {[returncode |-> 0, valid |-> TRUE, json |-> j] : j \in JsonSamples}

----------------------------------------------------------------------------
(* extract_imu_metadata and the two strategies *)

\* The suffix compared as it is written.
LowerKeepingCase(s) == s

\* str.lower() on the suffixes of the model.
Lower(s) ==
    CASE s \in {".INSV", ".Insv"} -> ".insv"
      [] s = ".MP4" -> ".mp4"
      [] OTHER -> s

\* issubclass(exc, cls) on the exceptions of the model.
IsSubclass(exc, cls) ==
    \/ exc = cls
    \/ cls = "Exception" /\ exc \in {"CalledProcessError", "JSONDecodeError",
                                    "ValueError", "TypeError", "AttributeError",
                                    "ZeroDivisionError"}
    \/ cls = "ValueError" /\ exc = "JSONDecodeError"

\* The except clauses of extract_imu_metadata.
Handlers == {"CalledProcessError", "JSONDecodeError", "Exception"}

\* What a call whose body returned value, or raised exc, hands its caller.
Outcome(value, exc) ==
    IF exc = "None" THEN [ret |-> value, raised |-> "None"]
    ELSE IF \E h \in Handlers : IsSubclass(exc, h)
    THEN [ret |-> "False", raised |-> "None"]
    ELSE [ret |-> "none", raised |-> exc]

Bool(b) == IF b THEN "True" ELSE "False"

\* extract_imu_metadata hands value or exc to its caller.
Finish(value, exc) ==
    /\ ret' = Outcome(value, exc).ret
    /\ raised' = Outcome(value, exc).raised
    /\ pc' = "done"

\* The entry of extract_imu_metadata, up to the choice of the strategy;
\* imu_data is whatever the extractor holds.
EnterExtractImuMetadata ==
    /\ pc' = IF Lower(suffix) \in {".insv"} THEN "comprehensive" ELSE "standard"
    /\ calls' = <<>>
    /\ ret' = "none"
    /\ raised' = "None"
    /\ probe' = NoProbe
    /\ warned' = FALSE
    /\ UNCHANGED <<suffix, imu_data, lines, current_timecode, current_accel,
                   current_gyro>>
    /\ UNCHANGED consumer_vars
    /\ UNCHANGED file_vars
    /\ UNCHANGED script_vars

\* The first call of extract_imu_metadata on an extractor.
ExtractImuMetadata ==
    /\ pc = "idle"
    /\ EnterExtractImuMetadata

\* A further call of extract_imu_metadata on the same extractor, after the
\* previous call has returned.
ExtractImuMetadataAgain ==
    /\ pc = "done"
    /\ Len(imu_data) <= MaxHeld
    /\ EnterExtractImuMetadata

\* _extract_insta360_comprehensive: the plain-text run of the tool.
RunExiftoolRaw ==
    /\ pc = "comprehensive"
    /\ \E returncode \in {0, 1} :
         /\ calls' = Append(calls, Call(ExiftoolRaw, returncode, "text"))
         /\ IF returncode # 0
            THEN /\ Finish("False", "CalledProcessError")
                 /\ UNCHANGED <<lines, current_timecode, current_accel, current_gyro>>
            ELSE /\ pc' = "parse"
                 /\ lines' = <<>>
                 /\ current_timecode' = None
                 /\ current_accel' = None
                 /\ current_gyro' = None
                 /\ UNCHANGED <<ret, raised>>
    /\ UNCHANGED <<suffix, imu_data, probe, warned>>
    /\ UNCHANGED consumer_vars
    /\ UNCHANGED file_vars
    /\ UNCHANGED script_vars

\* The tags of the lines of the group the output is in the middle of, the
\* output being made of groups of three lines.
OpenGroupTags(ls) == {ls[i].tag : i \in (Len(ls) - (Len(ls) % 3) + 1)..Len(ls)}

\* One iteration of the loop of _parse_raw_insta360_output, on the next
\* line of an output of at most limit lines drawn from samples; a grouped
\* output is made of groups of one Time Code, one Accelerometer and one
\* Angular Velocity line, in any order.
ParseNextLine(samples, limit, grouped) ==
    /\ pc = "parse"
    /\ Len(lines) < limit
    /\ \E line \in samples :
         /\ grouped => line.tag \notin OpenGroupTags(lines)
         /\ lines' = Append(lines, line)
         /\ ParseLineStep(line)
    /\ UNCHANGED <<suffix, pc, calls, ret, raised, probe, warned>>
    /\ UNCHANGED consumer_vars
    /\ UNCHANGED file_vars
    /\ UNCHANGED script_vars

\* The iteration on any output.
ParseLine == ParseNextLine(LineSamples, MaxLines, FALSE)

\* The iteration on an output made of well-formed triples.
ParseTripleLine == ParseNextLine(WellFormedLines, 3 * MaxTriples, TRUE)

\* The iteration on an output that repeats one triple.
ParseRepeatedLine == ParseNextLine(RepeatedLines, 3 * MaxTriples, TRUE)

\* The end of the loop of _parse_raw_insta360_output, its return value and
\* the branch _extract_insta360_comprehensive takes on it; the parser's
\* locals end with it.
ParseEnd ==
    /\ pc = "parse"
    /\ pc' = IF Len(imu_data) > 0 THEN "completeness" ELSE "standard"
    /\ lines' = <<>>
    /\ current_timecode' = None
    /\ current_accel' = None
    /\ current_gyro' = None
    /\ UNCHANGED <<suffix, imu_data, calls, ret, raised, probe, warned>>
    /\ UNCHANGED consumer_vars
    /\ UNCHANGED file_vars
    /\ UNCHANGED script_vars

RECURSIVE MinTimestamp(_, _)
MinTimestamp(data, n) ==
    IF n = 1 THEN data[1].timestamp
    ELSE LET m == MinTimestamp(data, n - 1)
         IN  IF data[n].timestamp < m THEN data[n].timestamp ELSE m

RECURSIVE MaxTimestamp(_, _)
MaxTimestamp(data, n) ==
    IF n = 1 THEN data[1].timestamp
    ELSE LET m == MaxTimestamp(data, n - 1)
         IN  IF data[n].timestamp > m THEN data[n].timestamp ELSE m

\* A percentage p stands for p / PercentScale percent.
PercentScale == 100

\* (imu_duration / video_duration) * 100; dividing by zero raises.
CoveragePercentage(data, video_duration) ==
    LET imu_duration == FSub(MaxTimestamp(data, Len(data)), MinTimestamp(data, Len(data)))
    IN  IF video_duration = 0 THEN [exc |-> "ZeroDivisionError", value |-> 0]
        ELSE [exc |-> "None",
              value |-> RoundDiv(imu_duration * 100 * PercentScale, video_duration)]

\* "if coverage_percentage <= 90"
LowCoverageInclusive(c) == c.exc = "None" /\ c.value <= 90 * PercentScale

\* "if coverage_percentage < 90", reached when the division has not raised.
LowCoverage(c) == c.exc = "None" /\ c.value < 90 * PercentScale

\* _check_imu_data_completeness with the answer p of the duration probe,
\* and the return of _extract_insta360_comprehensive after it.
CheckImuDataCompleteness ==
    /\ pc = "completeness"
    /\ \E p \in ProbeSamples :
         /\ probe' = p
         /\ IF Len(imu_data) = 0
            THEN /\ calls' = calls
                 /\ warned' = warned
                 /\ Finish("True", "None")
            ELSE /\ calls' = Append(calls, Call(Ffprobe, p.returncode,
                                                IF p.numeric THEN "number" ELSE "text"))
                 /\ IF p.returncode # 0 \/ ~p.numeric
                    THEN /\ warned' = warned
                         /\ Finish("True", "None")
                    ELSE \E c \in {CoveragePercentage(imu_data, p.duration)} :
                           /\ warned' = (warned \/ LowCoverage(c))
                           /\ Finish("True", c.exc)
    /\ UNCHANGED <<suffix, imu_data, lines, current_timecode, current_accel, current_gyro>>
    /\ UNCHANGED consumer_vars
    /\ UNCHANGED file_vars
    /\ UNCHANGED script_vars

\* _extract_standard_metadata: the JSON run of the tool and the parse.
\* _extract_standard_metadata, the tool ending with one of outcomes.
RunExiftoolJsonWith(outcomes) ==
    /\ pc = "standard"
    /\ \E out \in outcomes :
         /\ calls' = Append(calls, Call(ExiftoolJson, out.returncode,
                                        IF out.valid THEN "json" ELSE "text"))
         /\ IF out.returncode # 0
            THEN /\ imu_data' = imu_data
                 /\ Finish("False", "CalledProcessError")
            ELSE IF ~out.valid
            THEN /\ imu_data' = imu_data
                 /\ Finish("False", "JSONDecodeError")
            ELSE IF ~Truthy(out.json)
            THEN /\ imu_data' = imu_data
                 /\ Finish("False", "None")
            ELSE \E r \in {_parse_imu_from_metadata(
                             IF out.json.type = "list" THEN out.json.elems[1]
                             ELSE out.json)} :
                   /\ imu_data' = imu_data \o r.readings
                   /\ Finish(Bool(Len(imu_data') > 0), r.exc)
    /\ UNCHANGED <<suffix, lines, current_timecode, current_accel, current_gyro,
                   probe, warned>>
    /\ UNCHANGED consumer_vars
    /\ UNCHANGED file_vars
    /\ UNCHANGED script_vars

RunExiftoolJson == RunExiftoolJsonWith(ToolJsonOutcomes)

----------------------------------------------------------------------------
(* One extraction on a freshly constructed extractor *)

InitConsumers ==
    /\ headings = <<>>
    /\ summary = EmptyDict
    /\ deltas = <<>>
    /\ fault = "None"
    /\ last_op = "none"

\* No file at any output path.
InitFiles ==
    /\ files = [p \in OutputPaths |-> NoFile]
    /\ output_path = ""

\* No script is running: the extractor is used as a library.
InitScript ==
    /\ scan_data = <<>>
    /\ argv = <<>>
    /\ directory = {}
    /\ video_path = Path("", "")
    /\ sparse_dir = [exists |-> FALSE, entries |-> <<>>]
    /\ largest_model = <<>>
    /\ run = "none"
    /\ steps = <<>>

InitExtractor ==
    /\ imu_data = <<>>
    /\ pc = "idle"
    /\ lines = <<>>
    /\ current_timecode = None
    /\ current_accel = None
    /\ current_gyro = None
    /\ calls = <<>>
    /\ ret = "none"
    /\ raised = "None"
    /\ probe = NoProbe
    /\ warned = FALSE

----------------------------------------------------------------------------
(* The consumer operations, callable whenever no extraction is running *)

Idle == pc \in {"idle", "done"}

\* calculate_heading_changes writing the fallback time step back into the
\* readings.
CalculateHeadingChangesRepairingTimestamps ==
    /\ Idle
    /\ headings' = calculate_heading_changes(imu_data)
    /\ imu_data' = [i \in DOMAIN imu_data |->
                      IF i > 1 /\ imu_data[i].timestamp <= imu_data[i - 1].timestamp
                      THEN [imu_data[i] EXCEPT
                              !.timestamp = imu_data[i - 1].timestamp + FallbackDt]
                      ELSE imu_data[i]]
    /\ fault' = "None"
    /\ last_op' = "calculate_heading_changes"
    /\ UNCHANGED <<summary, deltas>>
    /\ UNCHANGED extraction_vars
    /\ UNCHANGED file_vars
    /\ UNCHANGED script_vars

CalculateHeadingChanges ==
    /\ Idle
    /\ headings' = calculate_heading_changes(imu_data)
    /\ fault' = "None"
    /\ last_op' = "calculate_heading_changes"
    /\ UNCHANGED <<imu_data, summary, deltas>>
    /\ UNCHANGED extraction_vars
    /\ UNCHANGED file_vars
    /\ UNCHANGED script_vars

GetDirectionSummary ==
    /\ Idle
    /\ \E heads \in {calculate_heading_changes(imu_data)} :
         IF Len(imu_data) = 0 \/ Len(heads) = 0
         THEN /\ summary' = EmptyDict
              /\ deltas' = <<>>
              /\ fault' = "None"
         ELSE \E ds \in {HeadingDeltas(heads)} :
              \E total_rotation \in {TotalRotation(ds, Len(ds))} :
              \E avg \in {AverageRotationRate(heads, total_rotation)} :
                /\ deltas' = ds
                /\ fault' = avg.fault
                /\ summary' = IF avg.fault # "None" THEN summary
                              ELSE DirectionSummary(heads, ds, total_rotation, avg.value)
    /\ last_op' = "get_direction_summary"
    /\ UNCHANGED <<imu_data, headings>>
    /\ UNCHANGED extraction_vars
    /\ UNCHANGED file_vars
    /\ UNCHANGED script_vars

SaveImuDataCsv ==
    /\ Idle
    /\ \E path \in OutputPaths :
         /\ output_path' = path
         /\ files' = WriteImuDataCsv(files, path, imu_data)
    /\ fault' = "None"
    /\ last_op' = "save_imu_data_csv"
    /\ UNCHANGED <<imu_data, headings, summary, deltas>>
    /\ UNCHANGED extraction_vars
    /\ UNCHANGED script_vars

SaveHeadingDataCsv ==
    /\ Idle
    /\ \E path \in OutputPaths :
         /\ output_path' = path
         /\ files' = WriteHeadingDataCsv(files, path, calculate_heading_changes(imu_data))
    /\ fault' = "None"
    /\ last_op' = "save_heading_data_csv"
    /\ UNCHANGED <<imu_data, headings, summary, deltas>>
    /\ UNCHANGED extraction_vars
    /\ UNCHANGED script_vars

----------------------------------------------------------------------------
(* Specifications of the extraction *)

Init ==
    /\ suffix \in SuffixSamples
    /\ InitExtractor
    /\ InitConsumers
    /\ InitFiles
    /\ InitScript

Next ==
    \/ ExtractImuMetadata
    \/ RunExiftoolRaw
    \/ ParseLine
    \/ ParseEnd
    \/ CheckImuDataCompleteness
    \/ RunExiftoolJson

Spec == Init /\ [][Next]_vars

InitTriples ==
    /\ suffix \in {".insv", ".INSV"}
    /\ InitExtractor
    /\ InitConsumers
    /\ InitFiles
    /\ InitScript

NextTriples ==
    \/ ExtractImuMetadata
    \/ RunExiftoolRaw
    \/ ParseTripleLine
    \/ ParseEnd
    \/ CheckImuDataCompleteness
    \/ RunExiftoolJson

SpecTriples == InitTriples /\ [][NextTriples]_vars

\* Any number of calls on the same extractor.
NextReuse ==
    \/ ExtractImuMetadata
    \/ ExtractImuMetadataAgain
    \/ RunExiftoolRaw
    \/ ParseRepeatedLine
    \/ ParseEnd
    \/ CheckImuDataCompleteness
    \/ RunExiftoolJson

SpecReuse == Init /\ [][NextReuse]_vars

----------------------------------------------------------------------------
(* The completeness diagnostic after a successful plain-text parse *)

CoverageTsSamples == {0, Seconds(45), Seconds(54), Seconds(58), Seconds(60)}

CoverageReadingSeqs ==
    UNION {[1..n -> {IMUReading(t, <<0, 0, 1>>, <<0, 0, 0>>) : t \in CoverageTsSamples}] :
             n \in 1..MaxReadings}

InitCoverage ==
    /\ imu_data \in CoverageReadingSeqs
    /\ suffix = ".insv"
    /\ pc = "completeness"
    /\ lines = <<>>
    /\ current_timecode = None
    /\ current_accel = None
    /\ current_gyro = None
    /\ calls = <<Call(ExiftoolRaw, 0, "text")>>
    /\ ret = "none"
    /\ raised = "None"
    /\ probe = NoProbe
    /\ warned = FALSE
    /\ InitConsumers
    /\ InitFiles
    /\ InitScript

NextCoverage == CheckImuDataCompleteness

SpecCoverage == InitCoverage /\ [][NextCoverage]_vars

----------------------------------------------------------------------------
(* The standard extraction on bounded metadata objects *)

MaxMembers == 2

\* A list of one reading object per accelerometer value of as.
ReadingList(as) == JList([k \in DOMAIN as |-> ReadingObject(<<as[k], as[k], as[k]>>)])

\* Members a metadata object can have: known fields, Doc* entries that
\* are well formed, of a wrong type, non-numeric or short of a field, and
\* a tag that holds no IMU data.
MetadataMemberSamples ==
    {Member("AccelerometerData", ReadingList(<<1>>)),
     Member("GyroscopeData", ReadingList(<<2>>)),
     Member("SensorData", ReadingList(<<3>>)),
     Member("MotionData", ReadingList(<<4>>)),
     Member("IMUData", ReadingList(<<5, 6>>)),
     Member("Doc1", GoodDoc(0)),
     Member("Doc1", DocEntry(JNum(0), JNum(1), TextTriple(<<7, 8, 9>>))),
     Member("Doc1", DocEntry(JNum(0), JStr(<<NotANumber, Num(2), Num(3)>>),
                             TextTriple(<<7, 8, 9>>))),
     Member("Doc2", GoodDoc(1000)),
     Member("Doc2", DocEntry(JNum(1000), TextTriple(<<1, 2, 3>>), JList(<<JNum(7)>>))),
     Member("Doc2", JDict(<<Member("TimeCode", JNum(1000)),
                            Member("Accelerometer", TextTriple(<<1, 2, 3>>))>>)),
     SourceFile}

\* The output of the tool: a list of one object with distinct keys.
MetadataSamples ==
    {JList(<<JDict(ms)>>) :
       ms \in {m \in UNION {[1..n -> MetadataMemberSamples] : n \in 0..MaxMembers} :
                 \A i, j \in DOMAIN m : m[i].key = m[j].key => i = j}}

\* A fresh extractor on a file that is not .insv, at the standard
\* extraction; scan_data is what json.loads returns.
InitMetadata ==
    /\ scan_data \in MetadataSamples
    /\ suffix = ".mp4"
    /\ InitExtractor
    /\ InitConsumers
    /\ InitFiles
    /\ argv = <<>>
    /\ directory = {}
    /\ video_path = Path("", "")
    /\ sparse_dir = [exists |-> FALSE, entries |-> <<>>]
    /\ largest_model = <<>>
    /\ run = "none"
    /\ steps = <<>>

RunExiftoolJsonOnMetadata ==
    RunExiftoolJsonWith({[returncode |-> 0, valid |-> TRUE, json |-> scan_data]})

NextMetadata ==
    \/ ExtractImuMetadata
    \/ RunExiftoolJsonOnMetadata

SpecMetadata == InitMetadata /\ [][NextMetadata]_vars

----------------------------------------------------------------------------
(* _extract_imu_readings on bounded lists and dicts *)

\* Elements a scanned list can hold, and dicts a scanned field can be.
ScanElementSamples ==
    {ReadingObject(<<1, 2, 3>>),
     JDict(<<Member("timestamp", JNum(5)), Member("ax", JNum(4)),
             Member("ay", JNum(5)), Member("az", JNum(6)),
             Member("gx", JNum(7)), Member("gy", JNum(8)), Member("gz", JNum(9))>>),
     JDict(<<Member("time", JStr(<<Num(7)>>)), Member("accel_x", JNum(1)),
             Member("accel_y", JNum(1)), Member("accel_z", JNum(1)),
             Member("gyro_y", JNum(2))>>),
     JDict(<<Member("Timestamp", JNum(0)), Member("AccelerationX", JNum(2)),
             Member("AccelerationY", JNum(2)), Member("AccelerationZ", JNum(2))>>),
     JDict(<<Member("AccelX", JNum(1)), Member("AccelY", JNum(2)),
             Member("GyroX", JNum(7)), Member("GyroY", JNum(8)), Member("GyroZ", JNum(9))>>),
     JDict(<<Member("timestamp", JNum(3)), Member("ay", JNum(5)), Member("az", JNum(6))>>),
     JDict(<<Member("AccelX", JStr(<<NotANumber>>)), Member("AccelY", JNum(2)),
             Member("AccelZ", JNum(3))>>),
     JNum(5)}

ScanSamples ==
    ScanElementSamples
    \cup {JList(elems) : elems \in UNION {[1..n -> ScanElementSamples] : n \in 0..MaxReadings}}

InitScan ==
    /\ scan_data \in ScanSamples
    /\ imu_data = <<>>
    /\ suffix = ".mp4"
    /\ pc = "scan"
    /\ lines = <<>>
    /\ current_timecode = None
    /\ current_accel = None
    /\ current_gyro = None
    /\ calls = <<>>
    /\ ret = "None"
    /\ raised = "None"
    /\ probe = NoProbe
    /\ warned = FALSE
    /\ InitConsumers
    /\ InitFiles
    /\ argv = <<>>
    /\ directory = {}
    /\ video_path = Path("", "")
    /\ sparse_dir = [exists |-> FALSE, entries |-> <<>>]
    /\ largest_model = <<>>
    /\ run = "none"
    /\ steps = <<>>

ExtractImuReadings ==
    /\ pc = "scan"
    /\ imu_data' = imu_data \o _extract_imu_readings(scan_data)
    /\ pc' = "done"
    /\ UNCHANGED <<suffix, lines, current_timecode, current_accel, current_gyro,
                   calls, ret, raised, probe, warned>>
    /\ UNCHANGED consumer_vars
    /\ UNCHANGED file_vars
    /\ UNCHANGED script_vars

NextScan == ExtractImuReadings

SpecScan == InitScan /\ [][NextScan]_vars

----------------------------------------------------------------------------
(* The two save operations on bounded reading sequences *)

SavedReadingSamples ==
    {IMUReading(0, <<0, 0, 1>>, <<0, 0, 0>>),
     IMUReading(Seconds(1), <<1, 2, 3>>, <<0, 0, -((10 * PiRad) \div 180)>>),
     IMUReading(Seconds(2), <<-4, 50, 6>>, <<7, -8, PiRad \div 2>>)}

\* A file that was at the path before the call.
OldFile == << <<"old">> >>

InitSave ==
    /\ imu_data \in UNION {[1..n -> SavedReadingSamples] : n \in 0..MaxReadings}
    /\ files \in [OutputPaths -> {NoFile, OldFile}]
    /\ output_path = ""
    /\ suffix = ".insv"
    /\ pc = "done"
    /\ lines = <<>>
    /\ current_timecode = None
    /\ current_accel = None
    /\ current_gyro = None
    /\ calls = <<>>
    /\ ret = Bool(Len(imu_data) > 0)
    /\ raised = "None"
    /\ probe = NoProbe
    /\ warned = FALSE
    /\ InitConsumers
    /\ InitScript

NextSave ==
    \/ SaveImuDataCsv
    \/ SaveHeadingDataCsv
    \/ CalculateHeadingChanges
    \/ GetDirectionSummary

SpecSave == InitSave /\ [][NextSave]_vars

----------------------------------------------------------------------------
(* The scripts: extract_360video_imu.main and imu_extractor.main *)

\* The least number of readings _apply_gravity_compensation works on.
GravityMinReadings == 10

\* find_insv_file_for_mp4 in a directory holding the paths of dir, as a
\* sequence of length 0 (None) or 1; file names are case-sensitive.
find_insv_file_for_mp4(mp4_path, dir) ==
    IF Lower(mp4_path.suffix) = ".mp4"
    THEN IF Path(mp4_path.stem, ".insv") \in dir
         THEN <<Path(mp4_path.stem, ".insv")>>
         ELSE IF Path(mp4_path.stem, ".INSV") \in dir
         THEN <<Path(mp4_path.stem, ".INSV")>>
         ELSE None
    ELSE None

Script360 == Path("extract_360video_imu", ".py")
ScriptImu == Path("imu_extractor", ".py")
ExtractImuOption == Path("--extract-imu", "")
OptionWords == {ExtractImuOption, Path("--verbose", "")}

\* DEFAULT_INPUT
DefaultInput == Path("default", ".mp4")

\* parser.parse_args() of extract_360video_imu.main on the words after the
\* script name: status 2 is the exit of argparse on words it does not
\* recognise; --extract-imu is a store_true option whose default is True.
ParseArgs360(words) ==
    LET positionals == SelectSeq(words, LAMBDA w : w \notin OptionWords)
        options == {words[i] : i \in DOMAIN words} \cap OptionWords
    IN  [status |-> IF Len(positionals) > 1 \/ ~(options \subseteq {ExtractImuOption})
                    THEN 2 ELSE 0,
         input |-> IF Len(positionals) = 0 THEN DefaultInput ELSE positionals[1],
         extract_imu |-> IF ExtractImuOption \in options THEN TRUE ELSE TRUE]

\* parser.parse_args() of imu_extractor.main: the video is required.
ParseArgsImu(words) ==
    LET positionals == SelectSeq(words, LAMBDA w : w \notin OptionWords)
        options == {words[i] : i \in DOMAIN words} \cap OptionWords
    IN  [status |-> IF Len(positionals) # 1 \/ options # {} THEN 2 ELSE 0,
         video |-> IF Len(positionals) = 0 THEN Path("", "") ELSE positionals[1]]

\* summary, deltas and fault after get_direction_summary on data.
SummaryOf(data, old) ==
    LET heads == calculate_heading_changes(data)
        ds == HeadingDeltas(heads)
        total_rotation == TotalRotation(ds, Len(ds))
        avg == AverageRotationRate(heads, total_rotation)
    IN  IF Len(data) = 0 \/ Len(heads) = 0
        THEN [summary |-> EmptyDict, deltas |-> <<>>, fault |-> "None"]
        ELSE [summary |-> IF avg.fault # "None" THEN old
                          ELSE DirectionSummary(heads, ds, total_rotation, avg.value),
              deltas |-> ds, fault |-> avg.fault]

\* What extract_imu_metadata can leave in imu_data of a fresh extractor.
ExtractedSamples ==
    {<<>>,
     <<IMUReading(0, <<0, 0, 1>>, <<0, 0, 0>>)>>,
     [k \in 1..2 |-> IMUReading(Seconds(k - 1), <<1, 2, 3>>, <<0, 0, PiRad \div 2>>)],
     [k \in 1..GravityMinReadings |->
        IMUReading(AssumedTimestamp(k - 1), <<0, 0, 1>>, <<0, 0, (20 * PiRad) \div 180>>)]}

\* The steps both scripts share: an extractor is constructed on target
\* and extract_imu_metadata is called; when it returns True the readings
\* are saved to imu_csv, the headings to heading_data.csv, and the
\* direction summary is taken. on_success and on_failure are the
\* positions of the script after them.
Analyse(target, imu_csv, on_success, on_failure) ==
    \E readings \in ExtractedSamples :
        /\ video_path' = target
        /\ suffix' = target.suffix
        /\ imu_data' = readings
        /\ ret' = Bool(Len(readings) > 0)
        /\ raised' = "None"
        /\ pc' = "done"
        /\ IF Len(readings) = 0
           THEN /\ steps' = Append(steps, "extract_imu_metadata")
                /\ run' = on_failure
                /\ UNCHANGED <<headings, summary, deltas, fault, last_op>>
                /\ UNCHANGED file_vars
           ELSE /\ steps' = steps \o <<"extract_imu_metadata", "save_imu_data_csv",
                                       "save_heading_data_csv", "calculate_heading_changes",
                                       "get_direction_summary", "calculate_heading_changes">>
                /\ files' = WriteHeadingDataCsv(WriteImuDataCsv(files, imu_csv, readings),
                                                "heading_data.csv",
                                                calculate_heading_changes(readings))
                /\ output_path' = "heading_data.csv"
                /\ summary' = SummaryOf(readings, summary).summary
                /\ deltas' = SummaryOf(readings, summary).deltas
                /\ fault' = SummaryOf(readings, summary).fault
                /\ last_op' = "get_direction_summary"
                /\ run' = IF SummaryOf(readings, summary).fault # "None"
                          THEN "exit 1" ELSE on_success
                /\ UNCHANGED headings
        /\ UNCHANGED <<lines, current_timecode, current_accel, current_gyro,
                       calls, probe, warned, scan_data, argv, directory,
                       sparse_dir, largest_model>>

\* extract_360video_imu.main up to the IMU step.
Main360 ==
    /\ run = "main"
    /\ argv[1] = Script360
    /\ \E args \in {ParseArgs360(Tail(argv))} :
         run' = IF args.status # 0 THEN "exit 2"
                ELSE IF args.input \notin directory THEN "exit 1"
                ELSE IF args.extract_imu THEN "imu"
                ELSE "frames"
    /\ UNCHANGED <<scan_data, argv, directory, video_path, steps, sparse_dir, largest_model>>
    /\ UNCHANGED extraction_vars
    /\ UNCHANGED <<imu_data, headings, summary, deltas, fault, last_op>>
    /\ UNCHANGED file_vars

\* extract_imu_data_for_analysis(input_path); main goes on to the frames
\* whatever it returns.
ExtractImuDataForAnalysis ==
    /\ run = "imu"
    /\ \E input_path \in {ParseArgs360(Tail(argv)).input} :
       \E insv_path \in {find_insv_file_for_mp4(input_path, directory)} :
         Analyse(IF insv_path # None THEN insv_path[1] ELSE input_path,
                 "imu_readings.csv", "frames", "frames")

\* The rest of extract_360video_imu.main: the frames of every video
\* stream are extracted, or no stream is found.
ExtractFrames ==
    /\ run = "frames"
    /\ \/ /\ run' = "exit 0"
          /\ steps' = Append(steps, "extract_frames_for_track_time_based")
       \/ /\ run' = "exit 1"
          /\ steps' = steps
    /\ UNCHANGED <<scan_data, argv, directory, video_path, sparse_dir, largest_model>>
    /\ UNCHANGED extraction_vars
    /\ UNCHANGED <<imu_data, headings, summary, deltas, fault, last_op>>
    /\ UNCHANGED file_vars

\* imu_extractor.main
ImuExtractorMain ==
    /\ run = "main"
    /\ argv[1] = ScriptImu
    /\ \E args \in {ParseArgsImu(Tail(argv))} :
         IF args.status # 0 \/ args.video \notin directory
         THEN /\ run' = IF args.status # 0 THEN "exit 2" ELSE "exit 1"
              /\ UNCHANGED <<scan_data, argv, directory, video_path, steps, sparse_dir, largest_model>>
              /\ UNCHANGED extraction_vars
              /\ UNCHANGED <<imu_data, headings, summary, deltas, fault, last_op>>
              /\ UNCHANGED file_vars
         ELSE Analyse(args.video, "imu_data.csv", "exit 0", "exit 1")

VideoSamples ==
    {Path("a", ".mp4"), Path("a", ".MP4"), Path("a", ".insv"), Path("b", ".mp4")}

\* The words after the script name.
WordSamples ==
    {<<v>> : v \in VideoSamples}
    \cup {<<Path("a", ".mp4"), ExtractImuOption>>,
          <<Path("a", ".mp4"), ExtractImuOption, Path("false", "")>>,
          <<Path("a", ".mp4"), Path("--verbose", "")>>,
          <<>>}

\* The files of the directory of the video.
DirectorySamples ==
    {{}, {Path("a", ".mp4")}, {Path("a", ".mp4"), Path("a", ".insv")},
     {Path("a", ".mp4"), Path("a", ".INSV")}, {Path("a", ".mp4"), Path("a", ".Insv")},
     {Path("a", ".MP4"), Path("a", ".insv"), Path("a", ".INSV")},
     {Path("a", ".insv"), Path("b", ".mp4"), DefaultInput}}

InitScripts ==
    /\ argv \in {<<script>> \o words : script \in {Script360, ScriptImu}, words \in WordSamples}
    /\ directory \in DirectorySamples
    /\ run = "main"
    /\ video_path = Path("", "")
    /\ sparse_dir = [exists |-> FALSE, entries |-> <<>>]
    /\ largest_model = <<>>
    /\ steps = <<>>
    /\ scan_data = <<>>
    /\ suffix = ""
    /\ InitExtractor
    /\ InitConsumers
    /\ InitFiles

NextScripts ==
    \/ Main360
    \/ ExtractImuDataForAnalysis
    \/ ExtractFrames
    \/ ImuExtractorMain

SpecScripts == InitScripts /\ [][NextScripts]_vars

----------------------------------------------------------------------------
(* colmap_sfm_fisheye: find_largest_model and the clean-up of main *)

MaxModels == 3

\* An entry of the sparse directory; size is the total size of the files
\* below a directory.
Entry(name, is_dir, size) == [name |-> name, is_dir |-> is_dir, size |-> size]

\* d.is_dir() and d.name.isdigit(), on the names of the model.
IsModelDir(d) == d.is_dir /\ d.name \in {"0", "1", "2"}

\* largest_model and max_size after the loop has handled the first n
\* model directories.
RECURSIVE LargestAfter(_, _)
LargestAfter(model_dirs, n) ==
    IF n = 0 THEN [largest_model |-> None, max_size |-> 0]
    ELSE LET before == LargestAfter(model_dirs, n - 1)
         IN  IF model_dirs[n].size > before.max_size
             THEN [largest_model |-> <<model_dirs[n]>>, max_size |-> model_dirs[n].size]
             ELSE before

\* The directory returned, as a sequence of length 0 (None) or 1.
find_largest_model(sparse) ==
    IF ~sparse.exists THEN None
    ELSE LET model_dirs == SelectSeq(sparse.entries, IsModelDir)
         IN  IF Len(model_dirs) = 0 THEN None
             ELSE IF Len(model_dirs) = 1 THEN <<model_dirs[1]>>
             ELSE LargestAfter(model_dirs, Len(model_dirs)).largest_model

\* The entries of the sparse directory in the order iterdir() lists them.
SparseSamples ==
    LET entries == {Entry(n, TRUE, sz) : n \in {"0", "1", "2"}, sz \in 0..2}
                   \cup {Entry("tmp", TRUE, 2), Entry("2", FALSE, 2)}
    IN  {[exists |-> FALSE, entries |-> <<>>]}
        \cup {[exists |-> TRUE, entries |-> es] :
                es \in {e \in UNION {[1..n -> entries] : n \in 0..MaxModels} :
                          \A i, j \in DOMAIN e : e[i].name = e[j].name => i = j}}

\* The mapper has run.
InitColmap ==
    /\ sparse_dir \in SparseSamples
    /\ largest_model = None
    /\ run = "mapper"
    /\ suffix = ""
    /\ InitExtractor
    /\ InitConsumers
    /\ InitFiles
    /\ scan_data = <<>>
    /\ argv = <<>>
    /\ directory = {}
    /\ video_path = Path("", "")
    /\ steps = <<>>

\* largest_model = find_largest_model(sparse_dir)
FindLargestModel ==
    /\ run = "mapper"
    /\ largest_model' = find_largest_model(sparse_dir)
    /\ run' = "analysed"
    /\ UNCHANGED <<scan_data, argv, directory, video_path, steps, sparse_dir>>
    /\ UNCHANGED extraction_vars
    /\ UNCHANGED <<imu_data, headings, summary, deltas, fault, last_op>>
    /\ UNCHANGED file_vars

\* The clean-up of main, sparse/0 having been made before the mapper ran:
\* the largest model is moved to sparse/0 and the other model directories
\* are removed.
CleanUpModels ==
    /\ run = "analysed"
    /\ sparse_dir.exists
    /\ \E i \in DOMAIN sparse_dir.entries : sparse_dir.entries[i] \in {Entry("0", TRUE, sz) : sz \in 0..2}
    /\ \E moved \in {IF largest_model # None /\ largest_model[1].name # "0"
                      THEN LET kept == SelectSeq(sparse_dir.entries, LAMBDA d : d.name # "0")
                           IN  [i \in DOMAIN kept |->
                                  IF kept[i] = largest_model[1]
                                  THEN [kept[i] EXCEPT !.name = "0"] ELSE kept[i]]
                      ELSE sparse_dir.entries} :
         sparse_dir' = IF largest_model = None THEN sparse_dir
                       ELSE [sparse_dir EXCEPT !.entries =
                               SelectSeq(moved, LAMBDA d : ~(IsModelDir(d) /\ d.name # "0"))]
    /\ run' = "exit 0"
    /\ UNCHANGED <<scan_data, argv, directory, video_path, steps, largest_model>>
    /\ UNCHANGED extraction_vars
    /\ UNCHANGED <<imu_data, headings, summary, deltas, fault, last_op>>
    /\ UNCHANGED file_vars

NextColmap ==
    \/ FindLargestModel
    \/ CleanUpModels

SpecColmap == InitColmap /\ [][NextColmap]_vars

----------------------------------------------------------------------------
(* The heading integrator and the summary on bounded reading sequences *)

TsSamples == {0, Seconds(1), Seconds(2)}

\* -10 deg/s, the smallest negative rate, 0, 20 deg/s and pi/2 rad/s.
YawSamples == {-(10 * PiRad) \div 180, -1, 0, (20 * PiRad) \div 180, PiRad \div 2}

ReadingSamples ==
    {IMUReading(t, <<0, 0, 1>>, <<0, 0, g>>) : t \in TsSamples, g \in YawSamples}

ReadingSeqs == UNION {[1..n -> ReadingSamples] : n \in 0..MaxReadings}

InitHeading ==
    /\ imu_data \in ReadingSeqs
    /\ suffix = ".insv"
    /\ pc = "done"
    /\ lines = <<>>
    /\ current_timecode = None
    /\ current_accel = None
    /\ current_gyro = None
    /\ calls = <<>>
    /\ ret = Bool(Len(imu_data) > 0)
    /\ raised = "None"
    /\ probe = NoProbe
    /\ warned = FALSE
    /\ InitConsumers
    /\ InitFiles
    /\ InitScript

NextHeading ==
    \/ CalculateHeadingChanges
    \/ GetDirectionSummary

SpecHeading == InitHeading /\ [][NextHeading]_vars

----------------------------------------------------------------------------
(* Claims on the heading integrator and the direction summary (SpecHeading) *)

HeadingsReturned == last_op = "calculate_heading_changes"
SummaryReturned == last_op = "get_direction_summary"
AvgKey == "average_rotation_rate_deg_per_sec"

\* The timestamp delta the integration step for reading i works with: the
\* delta to the previous reading, or 1 ms when that delta is not positive.
StepDt(i) ==
    LET d == imu_data[i].timestamp - imu_data[i - 1].timestamp
    IN  IF d > 0 THEN d ELSE TsScale \div 1000

\* The float nearest to the representative in [0, 360) of the float sum
\* of the heading before step i and the rotation of step i.
StepHeading(i) ==
    Fl(Fl(headings[i - 1][2]
          + RoundDiv(imu_data[i].gyro_z * StepDt(i) * RadToDegNum, RadToDegDen))
       % Deg(360))

\* C4: for every non-empty reading sequence the first heading returned by
\* calculate_heading_changes is exactly 0 and every heading h satisfies
\* 0 <= h < 360.
C4_HeadingInRange ==
    (HeadingsReturned /\ Len(imu_data) > 0) =>
        /\ Len(headings) > 0
        /\ headings[1][2] = 0
        /\ \A i \in DOMAIN headings :
             0 <= headings[i][2] /\ headings[i][2] < Deg(360)

\* C5: calculate_heading_changes returns one (timestamp, heading) sample
\* per reading, in input order, with that reading's timestamp; from the
\* second sample on the heading is the previous heading plus
\* degrees(gyro_z[i] * dt_i), with the rate of the current reading,
\* normalised into [0, 360); timestamps 0, 1, 2 s with rates 0, pi/2, 0
\* give 0, 90, 90.
C5_HeadingRecurrence ==
    HeadingsReturned =>
        /\ Len(headings) = Len(imu_data)
        /\ \A i \in DOMAIN headings : headings[i][1] = imu_data[i].timestamp
        /\ \A i \in DOMAIN headings : i = 1 => headings[i][2] = 0
        /\ \A i \in DOMAIN headings : i > 1 =>
             /\ headings[i][2] = StepHeading(i)
             /\ 0 <= headings[i][2] /\ headings[i][2] < Deg(360)
        /\ ( /\ Len(imu_data) = 3
             /\ [i \in 1..3 |-> imu_data[i].timestamp]
                  = <<0, Seconds(1), Seconds(2)>>
             /\ [i \in 1..3 |-> imu_data[i].gyro_z] = <<0, PiRad \div 2, 0>> )
           => [i \in 1..3 |-> headings[i][2]] = <<0, Deg(90), Deg(90)>>

C7_ShortSequenceAverageZero ==
    (SummaryReturned /\ Len(imu_data) <= 1) =>
        /\ fault = "None"
        /\ AvgKey \in DOMAIN summary
        /\ summary[AvgKey] = 0

\* C7 amended: get_direction_summary raises no division by zero for a
\* reading sequence of length 0 or 1; for length 1 the summary's average
\* rotation rate is 0, for length 0 the summary is the empty dict, which
\* has no average rotation rate.
C7_ShortSequenceSummary ==
    (SummaryReturned /\ Len(imu_data) <= 1) =>
        /\ fault = "None"
        /\ Len(imu_data) = 1 => (AvgKey \in DOMAIN summary /\ summary[AvgKey] = 0)
        /\ Len(imu_data) = 0 => DOMAIN summary = {}

C7_Witness ==
    /\ SummaryReturned
    /\ Len(imu_data) = 1
    /\ DOMAIN summary # {}
    /\ summary.heading_samples = 1

\* The sum of the absolute values of the first n deltas, added up in order.
RECURSIVE SumAbs(_, _)
SumAbs(ds, n) == IF n = 0 THEN 0 ELSE Fl(SumAbs(ds, n - 1) + Abs(ds[n]))

\* C8: for each consecutive pair of headings get_direction_summary takes
\* the signed shortest angular delta (raw difference, minus 360 when above
\* 180, plus 360 when below -180), so every delta is in [-180, 180]; the
\* total rotation is the sum of the absolute deltas and the direction-change
\* count is the number of deltas whose absolute value is strictly above 10
\* degrees; 350 -> 10 gives +20 and is counted.  Differences and sums are
\* float results (Fl).
C8_ShortestDeltas ==
    (SummaryReturned /\ Len(imu_data) > 0) =>
        LET heads == calculate_heading_changes(imu_data)
        IN  /\ Len(deltas) = Len(heads) - 1
            /\ \A i \in DOMAIN deltas :
                 LET raw == Fl(heads[i + 1][2] - heads[i][2])
                 IN  /\ deltas[i] = IF raw > Deg(180) THEN Fl(raw - Deg(360))
                                    ELSE IF raw < -Deg(180) THEN Fl(raw + Deg(360))
                                    ELSE raw
                     /\ -Deg(180) <= deltas[i] /\ deltas[i] <= Deg(180)
                     /\ (heads[i][2] = Deg(350) /\ heads[i + 1][2] = Deg(10))
                          => /\ deltas[i] = Deg(20)
                             /\ summary.direction_changes_count >= 1
            /\ summary.total_rotation_degrees = SumAbs(deltas, Len(deltas))
            /\ summary.direction_changes_count
                 = Cardinality({i \in DOMAIN deltas :
                                  deltas[i] > Deg(10) \/ deltas[i] < -Deg(10)})

C8_Witness ==
    /\ SummaryReturned
    /\ Len(imu_data) = 3
    /\ headings = calculate_heading_changes(imu_data)
    /\ headings[2][2] = Deg(350)
    /\ headings[3][2] = Deg(10)
    /\ deltas = <<-Deg(10), Deg(20)>>
    /\ summary.direction_changes_count = 1

\* C9: the average rotation rate of the summary is the total rotation
\* divided by (last sample timestamp - first sample timestamp) when there
\* are at least two samples and that span is positive, and 0 otherwise.
C9_AverageRotationRate ==
    (SummaryReturned /\ Len(imu_data) > 0) =>
        LET n == Len(imu_data)
            span == imu_data[n].timestamp - imu_data[1].timestamp
        IN  /\ fault = "None"
            /\ summary[AvgKey] =
                 IF n >= 2 /\ span > 0
                 THEN RoundDiv(summary.total_rotation_degrees * TsScale, span)
                 ELSE 0

C9_Witness ==
    /\ SummaryReturned
    /\ Len(imu_data) = 3
    /\ imu_data[1].timestamp = Seconds(1)
    /\ imu_data[3].timestamp = Seconds(2)
    /\ DOMAIN summary # {}
    /\ summary.total_rotation_degrees = Deg(90)
    /\ summary[AvgKey] = Deg(90)

----------------------------------------------------------------------------
(* Claims on the extraction *)

\* The values on the line tagged tag of the k-th group of three lines.
ValuesOfTriple(k, tag) ==
    LET i == CHOOSE j \in (3 * k - 2)..(3 * k) : lines[j].tag = tag
    IN  [n \in DOMAIN lines[i].tokens |-> lines[i].tokens[n].val]

\* C1: on a plain-text output made only of well-formed Time Code,
\* Accelerometer and Angular Velocity lines grouped into complete triples,
\* _parse_raw_insta360_output has appended, after every line, exactly one
\* reading per complete triple read so far, in the order in which the
\* triples complete; the k-th reading's timestamp is the k-th triple's time
\* code divided by 1000 and its accel and gyro values are that triple's.
C1_OneReadingPerTriple ==
    pc = "parse" =>
        /\ Len(imu_data) = Len(lines) \div 3
        /\ \A k \in DOMAIN imu_data :
             LET r == imu_data[k]
                 tc == ValuesOfTriple(k, "Time Code")
                 a == ValuesOfTriple(k, "Accelerometer")
                 g == ValuesOfTriple(k, "Angular Velocity")
             IN  /\ r.timestamp * 1000 = tc[1] * TsScale
                 /\ <<r.accel_x, r.accel_y, r.accel_z>> = a
                 /\ <<r.gyro_x, r.gyro_y, r.gyro_z>> = g

C1_Witness ==
    /\ pc = "parse"
    /\ Len(lines) = 6
    /\ lines[3].tag = "Time Code"
    /\ lines[4].tag = "Angular Velocity"
    /\ Len(imu_data) = 2
    /\ imu_data[1].timestamp = Seconds(1)
    /\ imu_data[2].timestamp = 0
    /\ imu_data[1].accel_x # imu_data[2].accel_x
    /\ imu_data[1].gyro_x # imu_data[2].gyro_x

InsvSuffix == suffix \in {".insv", ".INSV"}

IsExiftool(c) == c.cmd # Ffprobe

\* The commands of the metadata tool runs of the call, in order.
StrategiesRun ==
    LET runs == SelectSeq(calls, IsExiftool)
    IN  [i \in DOMAIN runs |-> runs[i].cmd]

\* C2: extract_imu_metadata tries its strategies in a fixed order.  For a
\* suffix .insv in any case the plain-text comprehensive extraction runs
\* first, and the grouped-JSON standard extraction is invoked only after
\* it and only when the plain-text parse has left no reading; for any
\* other suffix only the standard extraction runs.  No strategy runs a
\* second time within one call, and a call that has returned has run at
\* least one.
C2_StrategyOrder ==
    /\ [](InsvSuffix =>
            StrategiesRun \in {<<>>, <<ExiftoolRaw>>, <<ExiftoolRaw, ExiftoolJson>>})
    /\ [](~InsvSuffix => StrategiesRun \in {<<>>, <<ExiftoolJson>>})
    /\ [](pc = "done" => StrategiesRun # <<>>)
    /\ [][(InsvSuffix /\ Len(calls') > Len(calls)
             /\ calls'[Len(calls')].cmd = ExiftoolJson)
          => (pc = "standard" /\ Len(imu_data) = 0)]_vars

C2_Witness ==
    /\ pc = "done"
    /\ suffix = ".INSV"
    /\ StrategiesRun = <<ExiftoolRaw, ExiftoolJson>>
    /\ ret = "True"

\* C3: extract_imu_metadata never raises to its caller, and it returns
\* False when the metadata tool has exited non-zero in either strategy,
\* when the tool's output does not parse as JSON, and when no strategy
\* has produced any reading (the standard extraction, which runs last or
\* alone, ends the call without having added a reading).
C3_NeverRaises ==
    /\ [](raised = "None")
    /\ [](pc = "done" =>
            /\ ret \in {"True", "False"}
            /\ (\E i \in DOMAIN calls :
                   IsExiftool(calls[i]) /\ calls[i].returncode # 0) => ret = "False"
            /\ (\E i \in DOMAIN calls :
                   calls[i].cmd = ExiftoolJson /\ calls[i].stdout # "json") => ret = "False")
    /\ [][(pc = "standard" /\ pc' = "done" /\ imu_data' = imu_data)
          => ret' = "False"]_vars

\* C10: the completeness diagnostic is observational only.  For every
\* outcome of the duration probe, running _check_imu_data_completeness
\* after a successful plain-text parse leaves the readings of imu_data as
\* they are and extract_imu_metadata returns the success flag of the
\* parse, True.
C10_CompletenessObservational ==
    [][pc = "completeness" =>
         (imu_data' = imu_data /\ pc' = "done" /\ ret' = "True" /\ raised' = "None")]_vars

----------------------------------------------------------------------------
(* Claims on the completeness diagnostic (SpecCoverage) *)

\* max reading timestamp - min reading timestamp.
ReadingSpan ==
    MaxTimestamp(imu_data, Len(imu_data)) - MinTimestamp(imu_data, Len(imu_data))

ProbedDuration == probe.returncode = 0 /\ probe.numeric /\ probe.duration > 0

\* C11: once the diagnostic has run, the low-coverage warning has been
\* emitted if and only if the duration probe gave a positive duration and
\* (max reading timestamp - min reading timestamp) / probed duration is
\* strictly below 90%: a span of 0-45 s against 60 s warns, a span of
\* 0-58 s against 60 s does not, and a coverage of exactly 90% does not.
C11_LowCoverageWarning ==
    pc = "done" =>
        /\ warned <=> (ProbedDuration /\ ReadingSpan * 100 < 90 * probe.duration)
        /\ (ProbedDuration /\ probe.duration = Seconds(60)) =>
             /\ ReadingSpan = Seconds(45) => warned
             /\ ReadingSpan = Seconds(58) => ~warned
        /\ (ProbedDuration /\ ReadingSpan * 10 = 9 * probe.duration) => ~warned

C11_Witness ==
    /\ pc = "done"
    /\ ProbedDuration
    /\ probe.duration = Seconds(60)
    /\ Len(imu_data) = 2
    /\ imu_data[1].timestamp = Seconds(54)
    /\ imu_data[2].timestamp = 0
    /\ ~warned

----------------------------------------------------------------------------
(* Claims on the save operations (SpecSave) *)

\* The number a run of decimal digits writes.
RECURSIVE ValueOfDigits(_)
ValueOfDigits(cs) ==
    IF Len(cs) = 0 THEN 0
    ELSE 10 * ValueOfDigits(SubSeq(cs, 1, Len(cs) - 1))
         + (CHOOSE d \in 0..9 : DigitsOf(d) = <<cs[Len(cs)]>>)

\* float(cell) for a cell read back from the table: an optional sign, the
\* integer digits and a fraction of ".0".
FloatOfCell(cell) ==
    LET neg == cell[1] = "-"
        body == IF neg THEN Tail(cell) ELSE cell
        int == ValueOfDigits(SubSeq(body, 1, Len(body) - 2))
    IN  IF neg THEN -int ELSE int

FieldsOf(reading) ==
    <<reading.timestamp, reading.accel_x, reading.accel_y, reading.accel_z,
      reading.gyro_x, reading.gyro_y, reading.gyro_z>>

\* C12: after save_imu_data_csv has written a non-empty reading sequence,
\* the file at the output path holds the header timestamp, accel_x,
\* accel_y, accel_z, gyro_x, gyro_y, gyro_z in that order, followed by
\* exactly one row per reading, in sequence order, and reading the seven
\* cells of a row back as floats gives that reading's seven fields.
C12_CsvRoundTrip ==
    (last_op = "save_imu_data_csv" /\ Len(imu_data) > 0) =>
        LET table == files[output_path]
        IN  /\ table # NoFile
            /\ Len(table) = Len(imu_data) + 1
            /\ table[1] = <<"timestamp", "accel_x", "accel_y", "accel_z",
                            "gyro_x", "gyro_y", "gyro_z">>
            /\ \A k \in DOMAIN imu_data :
                 /\ Len(table[k + 1]) = 7
                 /\ [i \in 1..7 |-> FloatOfCell(table[k + 1][i])] = FieldsOf(imu_data[k])

C12_Witness ==
    /\ last_op = "save_imu_data_csv"
    /\ Len(imu_data) = 2
    /\ imu_data[1].gyro_z < 0
    /\ imu_data[2].accel_y = 50
    /\ Len(files[output_path]) = 3
    /\ files[output_path][2][7] = <<"-", "8", "0", ".", "0">>

\* C13: when imu_data is empty, save_imu_data_csv and
\* save_heading_data_csv leave the file system as it is: no file is
\* created, truncated or modified, and a file that was at the output path
\* keeps its content.
C13_EmptySaveIsNoOp ==
    [][(/\ last_op' \in {"save_imu_data_csv", "save_heading_data_csv"}
        /\ output_path' # ""
        /\ Len(imu_data) = 0)
       => files' = files]_vars

C13_Witness ==
    /\ last_op = "save_heading_data_csv"
    /\ Len(imu_data) = 0
    /\ output_path = "imu_data.csv"
    /\ files["imu_data.csv"] = OldFile
    /\ files["heading_data.csv"] = NoFile

----------------------------------------------------------------------------
(* Claims on the substring-scan strategy (SpecScan) *)

\* The source units of the scanned value: the elements of a list, or the
\* dict itself.
Units ==
    IF scan_data.type = "list" THEN scan_data.elems
    ELSE IF scan_data.type = "dict" THEN <<scan_data>>
    ELSE <<>>

HasAlias(e, aliases) == \E k \in DOMAIN aliases : HasKey(e, aliases[k])

\* The value under the first alias the unit has.
AliasValue(e, aliases) ==
    ValueOf(e, aliases[CHOOSE k \in DOMAIN aliases :
                          /\ HasKey(e, aliases[k])
                          /\ \A j \in 1..(k - 1) : ~HasKey(e, aliases[j])])

AllAliases ==
    {AccelAliases(a) : a \in {"x", "y", "z"}}
    \cup {GyroAliases(a) : a \in {"x", "y", "z"}} \cup {TimestampAliases}

\* A dict unit with all three accelerometer axes, every value it carries
\* under an alias being numeric.
WellFormedUnit(e) ==
    /\ e.type = "dict"
    /\ \A a \in {"x", "y", "z"} : HasAlias(e, AccelAliases(a))
    /\ \A al \in AllAliases :
         HasAlias(e, al) => FloatOfJson(AliasValue(e, al)).exc = "None"

\* The positions of the well-formed units, in order.
SourceIndices ==
    SelectSeq([k \in DOMAIN Units |-> k], LAMBDA k : WellFormedUnit(Units[k]))

\* C15: a list yields one reading per well-formed dict element, in
\* order, whose timestamp is the element's index in the list x 0.01 s when
\* the element has no timestamp field and the element's own timestamp
\* otherwise; a single dict yields one reading, at timestamp 0 when it has
\* no timestamp field.
C15_ScanTimestamps ==
    pc = "done" =>
        /\ Len(imu_data) = Len(SourceIndices)
        /\ \A j \in DOMAIN imu_data :
             LET k == SourceIndices[j]
                 e == Units[k]
             IN  imu_data[j].timestamp =
                    IF HasAlias(e, TimestampAliases)
                    THEN FloatOfJson(AliasValue(e, TimestampAliases)).value * TsScale
                    ELSE ((k - 1) * TsScale) \div 100

C15_Witness ==
    /\ pc = "done"
    /\ scan_data.type = "list"
    /\ Len(scan_data.elems) = 3
    /\ scan_data.elems[1].type = "num"
    /\ ~HasAlias(scan_data.elems[2], TimestampAliases)
    /\ HasAlias(scan_data.elems[3], TimestampAliases)
    /\ Len(imu_data) = 2
    /\ imu_data[1].timestamp = TsScale \div 100
    /\ imu_data[2].timestamp = 5 * TsScale

\* C16: every reading comes from a unit that has all three accelerometer
\* axes: a unit missing an accelerometer axis under all of its aliases
\* gives no reading, and a gyroscope axis missing under all of its aliases
\* is 0 in the reading.
C16_AccelRequiredGyroDefaults ==
    pc = "done" =>
        /\ Len(imu_data) = Len(SourceIndices)
        /\ \A j \in DOMAIN imu_data :
             LET e == Units[SourceIndices[j]]
                 accel == [a \in {"x", "y", "z"} |->
                             FloatOfJson(AliasValue(e, AccelAliases(a))).value]
                 gyro == [a \in {"x", "y", "z"} |->
                            IF HasAlias(e, GyroAliases(a))
                            THEN FloatOfJson(AliasValue(e, GyroAliases(a))).value
                            ELSE 0]
             IN  /\ \A a \in {"x", "y", "z"} : HasAlias(e, AccelAliases(a))
                 /\ <<imu_data[j].accel_x, imu_data[j].accel_y, imu_data[j].accel_z>>
                      = <<accel["x"], accel["y"], accel["z"]>>
                 /\ <<imu_data[j].gyro_x, imu_data[j].gyro_y, imu_data[j].gyro_z>>
                      = <<gyro["x"], gyro["y"], gyro["z"]>>

C16_Witness ==
    /\ pc = "done"
    /\ scan_data.type = "list"
    /\ Len(scan_data.elems) = 2
    /\ ~HasAlias(scan_data.elems[1], AccelAliases("z"))
    /\ HasAlias(scan_data.elems[1], AccelAliases("x"))
    /\ ~HasAlias(scan_data.elems[2], GyroAliases("x"))
    /\ HasAlias(scan_data.elems[2], GyroAliases("y"))
    /\ Len(imu_data) = 1
    /\ imu_data[1].gyro_x = 0
    /\ imu_data[1].gyro_y = 2

----------------------------------------------------------------------------
(* Claims on the pending slots of _parse_raw_insta360_output (Spec) *)

\* The pending slot a tagged line is about.
SlotOf(tag, timecode, accel, gyro) ==
    CASE tag = "Time Code" -> timecode
      [] tag = "Accelerometer" -> accel
      [] tag = "Angular Velocity" -> gyro

SlotTags == {"Time Code", "Accelerometer", "Angular Velocity"}

Populated(tag) == SlotOf(tag, current_timecode, current_accel, current_gyro) # None

\* A line that carries a value for its slot.
CarriesValue(line) ==
    /\ line.tag \in SlotTags
    /\ line.colon
    /\ Len(line.tokens) = (IF line.tag = "Time Code" THEN 1 ELSE 3)
    /\ \A i \in DOMAIN line.tokens : line.tokens[i].num

\* A line of one of the three tags whose value float() rejects.
NonNumeric(line) ==
    /\ line.tag \in SlotTags
    /\ line.colon
    /\ Len(line.tokens) = (IF line.tag = "Time Code" THEN 1 ELSE 3)
    /\ \E i \in DOMAIN line.tokens : ~line.tokens[i].num

FillsLastEmptySlot(line) ==
    /\ CarriesValue(line)
    /\ \A tag \in SlotTags : Populated(tag) <=> tag # line.tag

\* The loop body has just run on one more line.
LineProcessed == pc = "parse" /\ Len(lines') = Len(lines) + 1

\* C19: the three pending slots are never all populated when a line
\* starts being processed; a reading is appended on exactly the line that
\* fills the last empty slot, and the three slots are unset right after it.
C19_SlotsNeverAllPending ==
    [][LineProcessed =>
         /\ \E tag \in SlotTags : ~Populated(tag)
         /\ (Len(imu_data') = Len(imu_data) + 1) <=> FillsLastEmptySlot(lines'[Len(lines')])
         /\ (Len(imu_data') = Len(imu_data)) <=> ~FillsLastEmptySlot(lines'[Len(lines')])
         /\ FillsLastEmptySlot(lines'[Len(lines')]) =>
              /\ current_timecode' = None
              /\ current_accel' = None
              /\ current_gyro' = None]_vars

C19_Witness ==
    /\ pc = "parse"
    /\ Len(lines) = 4
    /\ CarriesValue(lines[1])
    /\ CarriesValue(lines[2])
    /\ NonNumeric(lines[3])
    /\ CarriesValue(lines[4])
    /\ Len(imu_data) = 1
    /\ \A tag \in SlotTags : ~Populated(tag)

\* C20: a Time Code, Accelerometer or Angular Velocity line with a
\* non-numeric value does not abort the parse, and the pending field of
\* its tag is unset after the line, whatever it held before.
C20_MalformedLineUnsetsSlot ==
    [][(LineProcessed /\ NonNumeric(lines'[Len(lines')])) =>
         /\ pc' = "parse"
         /\ SlotOf(lines'[Len(lines')].tag,
                   current_timecode', current_accel', current_gyro') = None]_vars

----------------------------------------------------------------------------
(* Claims on the scripts (SpecScripts) *)

Called(step) == \E i \in DOMAIN steps : steps[i] = step

Running360 == Len(argv) > 0 /\ argv[1] = Script360

\* The files of the directory with the base name of path and the raw
\* extension in any letter case.
RawSiblings(path) ==
    {p \in directory : p.stem = path.stem /\ Lower(p.suffix) = ".insv"}

\* C14: when the input has the .mp4 extension and a sibling with the same
\* base name and the raw extension, in any letter case, is in the
\* directory, the extractor is constructed on the sibling; otherwise it is
\* constructed on the input path.
C14_SiblingPreferred ==
    (Running360 /\ Called("extract_imu_metadata")) =>
        LET input_path == ParseArgs360(Tail(argv)).input
        IN  IF Lower(input_path.suffix) = ".mp4" /\ RawSiblings(input_path) # {}
            THEN video_path \in RawSiblings(input_path)
            ELSE video_path = input_path

\* C17: in every run of either script that extracts at least 10 readings,
\* _apply_gravity_compensation is executed after the extraction and before
\* the readings table is written and the heading changes are calculated.
C17_GravityCompensationApplied ==
    \A j \in DOMAIN steps :
        (/\ Len(imu_data) >= GravityMinReadings
         /\ steps[j] \in {"save_imu_data_csv", "calculate_heading_changes"}) =>
            \E e \in 1..(j - 1) : \E g \in (e + 1)..(j - 1) :
                /\ steps[e] = "extract_imu_metadata"
                /\ steps[g] = "_apply_gravity_compensation"

\* C18: extract_360video_imu run on '<video> --extract-imu false', the
\* video being a file, skips the IMU extraction and goes on to extract the
\* frames: it is not stopped before them, and when it exits with status 0
\* the frames have been extracted.
C18_ExtractImuFalseSkipsImu ==
    (/\ Running360
     /\ Len(argv) = 4
     /\ argv[2] \in directory
     /\ argv[3] = ExtractImuOption
     /\ argv[4] = Path("false", "")) =>
        /\ ~Called("extract_imu_metadata")
        /\ run \in {"main", "frames", "exit 0", "exit 1"}
        /\ run = "exit 0" => Called("extract_frames_for_track_time_based")

----------------------------------------------------------------------------
(* Claims on the groups of the plain-text output (Spec) *)

\* The last line of ls that carries a value for the slot of tag, 0 if none.
LastCarrying(ls, tag) ==
    LET is == {i \in DOMAIN ls : ls[i].tag = tag /\ CarriesValue(ls[i])}
    IN  IF is = {} THEN 0 ELSE CHOOSE i \in is : \A j \in is : j <= i

\* The Time Code line that opens the group line i is in, 0 if none.
GroupHead(ls, i) ==
    LET ts == {t \in 1..i : ls[t].tag = "Time Code"}
    IN  IF ts = {} THEN 0 ELSE CHOOSE t \in ts : \A u \in ts : u <= t

\* The lines of the group opened by line t: up to the next Time Code line.
GroupLines(ls, t) ==
    {i \in t..Len(ls) : \A u \in (t + 1)..i : ls[u].tag # "Time Code"}

\* The group carries a time code, an accelerometer and a gyroscope value.
GroupComplete(ls, t) ==
    \A tag \in SlotTags :
        \E i \in GroupLines(ls, t) : ls[i].tag = tag /\ CarriesValue(ls[i])

\* C21: no accelerometer or gyroscope value of an incomplete group appears
\* in a reading whose timestamp comes from a later Time Code line.
C21_NoStaleFieldLeaks ==
    [][(LineProcessed /\ Len(imu_data') = Len(imu_data) + 1) =>
         \A tag \in {"Accelerometer", "Angular Velocity"} :
             LET from == LastCarrying(lines', tag)
                 head == GroupHead(lines', from)
             IN  (from < LastCarrying(lines', "Time Code") /\ head > 0)
                     => GroupComplete(lines', head)]_vars

----------------------------------------------------------------------------
(* Claims on the standard extraction (SpecMetadata) *)

\* The members of the metadata object.
MetadataMembers == scan_data.elems[1].members

IsDoc(m) == m.key \in {"Doc1", "Doc2", "Doc3"}

\* The time codes of the well-formed Doc* entries, and whether m is one.
GoodTimeCodes == {0, 1000}
IsGoodDoc(m) == IsDoc(m) /\ \E tc \in GoodTimeCodes : m.value = GoodDoc(tc)

\* C22: when a Doc* entry of the metadata object is malformed, every
\* well-formed Doc* entry of the object still yields its reading and
\* extract_imu_metadata returns True.
C22_MalformedUnitSkipped ==
    (/\ pc = "done"
     /\ \E i \in DOMAIN MetadataMembers :
          IsDoc(MetadataMembers[i]) /\ ~IsGoodDoc(MetadataMembers[i])) =>
        \A k \in DOMAIN MetadataMembers :
            IsGoodDoc(MetadataMembers[k]) =>
                /\ ret = "True"
                /\ \E j \in DOMAIN imu_data :
                     /\ imu_data[j].timestamp * 1000
                          = ValueOf(MetadataMembers[k].value, "TimeCode").val * TsScale
                     /\ <<imu_data[j].accel_x, imu_data[j].accel_y, imu_data[j].accel_z>>
                          = <<1, 2, 3>>
                     /\ <<imu_data[j].gyro_x, imu_data[j].gyro_y, imu_data[j].gyro_z>>
                          = <<7, 8, 9>>

KnownFieldNames ==
    {"AccelerometerData", "GyroscopeData", "SensorData",
     "CameraMotionMetadata", "MotionData", "IMUData"}

\* The place of a known field name in the list of the known field names.
KnownFieldRank(name) ==
    CASE name = "AccelerometerData" -> 1
      [] name = "GyroscopeData" -> 2
      [] name = "SensorData" -> 3
      [] name = "CameraMotionMetadata" -> 4
      [] name = "MotionData" -> 5
      [] name = "IMUData" -> 6

\* The accelerometer x values of the reading objects of a list.
AccelXOf(list) == {ValueOf(list.elems[i], "AccelX").val : i \in DOMAIN list.elems}

\* C23: when the metadata object has several of the known field names,
\* readings are taken from the first one present in the order of the list
\* and from no other known field.
C23_FirstKnownFieldWins ==
    pc = "done" =>
        \A k, first \in DOMAIN MetadataMembers :
            (/\ MetadataMembers[k].key \in KnownFieldNames
             /\ MetadataMembers[first].key \in KnownFieldNames
             /\ KnownFieldRank(MetadataMembers[first].key)
                  < KnownFieldRank(MetadataMembers[k].key)) =>
                /\ \A j \in DOMAIN imu_data :
                     imu_data[j].accel_x \notin AccelXOf(MetadataMembers[k].value)
                /\ \A x \in AccelXOf(MetadataMembers[first].value) :
                     \E j \in DOMAIN imu_data : imu_data[j].accel_x = x

\* C27: a metadata object whose only IMU-bearing key holds a list of n
\* well-formed reading objects yields exactly n readings, also when the
\* key is one of the known field names.
C27_NoUnitReadTwice ==
    (/\ pc = "done"
     /\ Cardinality({k \in DOMAIN MetadataMembers :
                       \/ MetadataMembers[k].key \in KnownFieldNames
                       \/ IsDoc(MetadataMembers[k])}) = 1) =>
        \A k \in DOMAIN MetadataMembers :
            MetadataMembers[k].key \in KnownFieldNames =>
                Len(imu_data) = Len(MetadataMembers[k].value.elems)

----------------------------------------------------------------------------
(* Claims on out-of-order timestamps (SpecHeading) *)

\* Reading i of imu_data, 1 ms after its predecessor.
OneMillisecondLater(i) ==
    [imu_data[i] EXCEPT !.timestamp = imu_data[i - 1].timestamp + TsScale \div 1000]

\* C24: when the timestamp of a reading is not after the timestamp of its
\* predecessor, the integration step gives the heading it gives for a
\* reading 1 ms after the predecessor; the computation does not abort and
\* a sample is emitted for every reading.
C24_FallbackTimeDelta ==
    HeadingsReturned =>
        /\ fault = "None"
        /\ Len(headings) = Len(imu_data)
        /\ \A i \in DOMAIN imu_data :
             (i > 1 /\ imu_data[i].timestamp <= imu_data[i - 1].timestamp) =>
                 /\ headings[i][1] = imu_data[i].timestamp
                 /\ headings[i][2] =
                      IntegrateHeading(headings[i - 1][2],
                                       <<imu_data[i - 1], OneMillisecondLater(i)>>, 2)

C24_Witness ==
    /\ HeadingsReturned
    /\ Len(imu_data) = 3
    /\ imu_data[2].timestamp = imu_data[1].timestamp
    /\ imu_data[3].timestamp < imu_data[2].timestamp
    /\ imu_data[2].gyro_z = PiRad \div 2
    /\ imu_data[3].gyro_z = PiRad \div 2
    /\ headings[2][2] > 0
    /\ headings[3][2] > headings[2][2]
    /\ headings[3][2] < Deg(1)

----------------------------------------------------------------------------
(* Claims on the readings under the consuming operations (SpecSave) *)

\* C25: calculate_heading_changes, get_direction_summary,
\* save_imu_data_csv and save_heading_data_csv, in any sequence, leave the
\* length and the order of imu_data and the seven fields of every reading
\* as they are.
C25_ConsumersLeaveReadings ==
    [][last_op' \in {"calculate_heading_changes", "get_direction_summary",
                     "save_imu_data_csv", "save_heading_data_csv"}
       => /\ Len(imu_data') = Len(imu_data)
          /\ \A i \in DOMAIN imu_data : FieldsOf(imu_data'[i]) = FieldsOf(imu_data[i])]_vars

C25_Witness ==
    /\ last_op = "get_direction_summary"
    /\ Len(imu_data) = 3
    /\ imu_data[2].timestamp < imu_data[1].timestamp
    /\ Len(headings) = 3
    /\ Len(files["imu_readings.csv"]) = 4
    /\ Len(files["heading_data.csv"]) = 4
    /\ Len(deltas) = 2

----------------------------------------------------------------------------
(* Claims on the result of one call (SpecTriples, Spec, SpecReuse) *)

\* C26: after one call of extract_imu_metadata on a fresh extractor the
\* timestamps of imu_data are non-decreasing along the sequence, whatever
\* order the time codes have in the tool output.
C26_TimeOrdered ==
    pc = "done" =>
        \A i, j \in DOMAIN imu_data :
            i < j => imu_data[i].timestamp <= imu_data[j].timestamp

\* C28: on a fresh extractor extract_imu_metadata returns True if and
\* only if imu_data is non-empty when it returns.
C28_FlagAgreesWithData ==
    pc = "done" =>
        /\ ret \in {"True", "False"}
        /\ ret = "True" <=> Len(imu_data) > 0

\* C29: imu_data holds the readings of one extraction only.  While a call
\* parses a plain-text output made of triples, imu_data holds one reading
\* per triple of that output read so far, and the parse of a call counts
\* as successful only when that call's output held a triple.
C29_BuiltOncePerCall ==
    /\ [](pc = "parse" => Len(imu_data) = Len(lines) \div 3)
    /\ [][(pc = "parse" /\ pc' = "completeness") => Len(lines) >= 3]_vars

----------------------------------------------------------------------------
(* Claims on the COLMAP driver (SpecColmap) *)

\* The digit-named model directories of a sparse directory.
ModelDirs(sparse) ==
    {sparse.entries[i] : i \in {j \in DOMAIN sparse.entries :
                                  /\ sparse.entries[j].is_dir
                                  /\ sparse.entries[j].name \in {"0", "1", "2"}}}

\* C30: find_largest_model returns None only when the sparse directory
\* does not exist or holds no digit-named model directory; when a model
\* directory exists it returns one of maximal total size, also when every
\* model directory is empty, and after the clean-up sparse/0 holds the
\* largest model and no other digit-named directory remains.
C30_LargestModelKept ==
    /\ [](run = "analysed" =>
            /\ largest_model = <<>> <=> ModelDirs(sparse_dir) = {}
            /\ ModelDirs(sparse_dir) # {} =>
                 /\ largest_model[1] \in ModelDirs(sparse_dir)
                 /\ \A d \in ModelDirs(sparse_dir) : d.size <= largest_model[1].size)
    /\ [][(run = "analysed" /\ run' = "exit 0" /\ ModelDirs(sparse_dir) # {}) =>
            \E d \in ModelDirs(sparse_dir) :
                /\ \A e \in ModelDirs(sparse_dir) : e.size <= d.size
                /\ ModelDirs(sparse_dir') = {[d EXCEPT !.name = "0"]}]_vars

====
